---- MODULE Spec2Model ----
(***************************************************************************)
(* The /api/run endpoint of agui_server.py: the request handler run_agent, *)
(* the per-run generator stream() with its bounded tool calling loop, the  *)
(* shared conversation_store and llm_cache.                                 *)
(*                                                                         *)
(* run_agent is an async handler: handlers run one at a time on the event  *)
(* loop.  stream() is a synchronous generator, which the framework         *)
(* iterates in a thread pool: the streams of different runs, and a handler *)
(* and a stream, run concurrently and share conversation_store and         *)
(* llm_cache without a lock.  An action is the code between two accesses   *)
(* to that shared state or to a collaborator; the yields of a stream are   *)
(* local to its run and belong to the action of the code around them.      *)
(*                                                                         *)
(* Texts are sequences of one-character strings.  The language model and   *)
(* the tool executor are external: a model invocation returns any response *)
(* of ModelResponses or raises, a tool execution returns a result or       *)
(* raises.  A client that disconnects (GeneratorExit) is not modelled.     *)
(*                                                                         *)
(* The interactive query loop of langchain-agent.py, the CLI agent, is a   *)
(* second program with a history of its own (conversation_history); it is  *)
(* single-threaded, and has its own specification, SpecCLI.  A            *)
(* KeyboardInterrupt, which ends the session like "quit", is not modelled. *)
(*                                                                         *)
(* get_api_key of llm_config.py is a function of its arguments and of what *)
(* the credential sources hold; SpecKeys calls it on every combination.    *)
(*                                                                         *)
(* MCPAWSTerraformServer.execute_tool of mcp_servers/aws_terraform_server  *)
(* and its handlers work on a workspace of Terraform project directories;  *)
(* SpecTools calls it with every tool and parameter set.                   *)
(***************************************************************************)
EXTENDS Integers, Sequences, FiniteSets, TLC

VARIABLES
    MCP_AVAILABLE,       \* the import of mcp_servers.aws_terraform_server succeeded
    conversation_store,  \* thread id -> list of messages
    llm_cache,           \* cache key -> model instance
    handler,             \* the run_agent call suspended before its overwrite, or NoHandler
    http_status,         \* status of the last reply of run_agent (0: none yet)
    nreq,                \* number of requests received
    nruns,               \* number of run ids drawn (uuid4)
    ninits,              \* number of model instances built by initialize_llm
    payload,             \* run -> the RunRequest of the run
    pc,                  \* run -> position of the run's stream()
    events,              \* run -> the events the stream has yielded
    llm,                 \* run -> the model instance get_llm returned
    iteration,           \* run -> the loop counter
    response,            \* run -> the last model response
    tc,                  \* run -> index of the tool call being dispatched
    result,              \* run -> the outcome of the tool call being dispatched
    budget,              \* what the collaborators may still do (bounds the model)
    log,                 \* run -> what the run did to its collaborators (history variable)
    conversation_history,\* the CLI agent: its list of messages
    cli_pc,              \* the CLI agent: position in the interactive query loop
    cli_iteration,       \* the CLI agent: the loop counter of the query
    cli_response,        \* the CLI agent: the last model response
    cli_tc,              \* the CLI agent: index of the tool call being dispatched
    cli_printed,         \* the CLI agent: the answers printed under "Agent:"
    cli_log,             \* the CLI agent: what the session did (history variable)
    credentials,         \* get_api_key: what the credential sources hold
    key_call,            \* get_api_key: the arguments of the call
    key_result,          \* get_api_key: what the call returned or raised, or NoKeyResult
    identity,            \* the tool server: rbac.identity, None before initialize()
    workspace,           \* the tool server: the project directories and their files
    mcp_call,            \* the tool server: name and parameters of the last call
    mcp_env,             \* the tool server: what IAM said at the last call
    mcp_result,          \* the tool server: what the last call returned or raised
    mcp_commands,        \* the tool server: the terraform commands the last call ran
    mcp_runs             \* the tool server: number of calls of execute_tool

cliVars == <<conversation_history, cli_pc, cli_iteration, cli_response, cli_tc,
             cli_printed, cli_log>>

apiVars == <<MCP_AVAILABLE, conversation_store, llm_cache, handler, http_status,
             nreq, nruns, ninits, payload, pc, events, llm, iteration, response, tc,
             result, budget, log>>

keyVars == <<credentials, key_call, key_result>>

toolVars == <<identity, workspace, mcp_call, mcp_env, mcp_result, mcp_commands, mcp_runs>>

vars == <<apiVars, cliVars, keyVars, toolVars>>

serverVars == <<MCP_AVAILABLE, conversation_store, llm_cache, handler, http_status,
                nreq, nruns, ninits, payload>>
streamVars == <<events, llm, iteration, response, tc, result>>

----------------------------------------------------------------------------
(* Bounds of the model *)

\* tool calls in one model response
MaxCalls == 2
\* tool calls the model requests over all runs, when runs overlap
MaxToolCalls == 1
\* tool calls the model requests over all runs, when the client awaits each run
MaxSerialToolCalls == 5
\* failures of the model backend and of tools, over all runs
MaxFaults == 1
\* final texts of more than one chunk, over all runs
MaxLongTexts == 1

\* lines the user types into the CLI agent
MaxQueries == 2
\* tool calls the model requests over a session of the CLI agent
MaxCliToolCalls == 5
\* failures of the model backend and of tools over a session of the CLI agent
MaxCliFaults == 1
\* the calls of aws_mcp.execute_tool the tool server is given
MaxToolRuns == 3

(* Program constants *)

max_iterations == 5
chunk_size == 60
\* max_iterations of the CLI agent
cli_max_iterations == 5

\* the run ids run_agent draws; the clients send as many requests
Runs == {1, 2}
None == "None"
NoHandler == [run |-> 0]

----------------------------------------------------------------------------
(* Texts *)

Whitespace == {" ", "\n", "\t"}

RECURSIVE lstrip(_)
lstrip(s) == IF s # <<>> /\ Head(s) \in Whitespace THEN lstrip(Tail(s)) ELSE s

RECURSIVE rstrip(_)
rstrip(s) ==
    IF s # <<>> /\ s[Len(s)] \in Whitespace THEN rstrip(SubSeq(s, 1, Len(s) - 1)) ELSE s

\* str.strip()
strip(s) == rstrip(lstrip(s))

Repeat(c, n) == [i \in 1..n |-> c]

SYSTEM_PROMPT == <<"Y", "o", "u", " ", "a", "r", "e">>
TextDone == <<"D", "o", "n", "e", ".">>
TextLong == Repeat("a", chunk_size) \o <<"b">>
TextBlank == <<" ">>
FallbackInitiated == <<"I", " ", "h", "a", "v", "e">>
FallbackNoResponse == <<"N", "o", " ", "r", "e", "s", "p", "o", "n", "s", "e">>
\* the note on Perplexity's tool calling, 159 characters
PerplexityNote == <<">", " ", "N", "o", "t", "e">> \o Repeat(".", 153)

----------------------------------------------------------------------------
(* Messages of a history *)

NoId == <<>>

SystemMessage(content) ==
    [role |-> "system", content |-> content, tool_calls |-> <<>>, tool_call_id |-> NoId]

HumanMessage(content) ==
    [role |-> "human", content |-> content, tool_calls |-> <<>>, tool_call_id |-> NoId]

AIMessage(content, tool_calls) ==
    [role |-> "ai", content |-> content, tool_calls |-> tool_calls, tool_call_id |-> NoId]

ToolMessage(content, tool_call_id) ==
    [role |-> "tool", content |-> content, tool_calls |-> <<>>, tool_call_id |-> tool_call_id]

\* json.dumps of a tool result {"success": ..., "error": ...}
json_dumps(res) == <<"success", IF res.success THEN "true" ELSE "false", res.error>>

NoResponse == AIMessage(<<>>, <<>>)
NoResult == [success |-> FALSE, error |-> None]

----------------------------------------------------------------------------
(* Requests *)

SUPPORTED_LLMS == {"perplexity", "openai", "gemini", "claude", "ollama"}

Req(m, t, pr, mcp) ==
    [message |-> m, threadId |-> t, provider |-> pr,
     model |-> None, credentialSource |-> None, mcpServer |-> mcp]

\* the requests the clients send
RunRequest ==
    {Req(<<"h", "i">>, "t1", "openai", "aws_terraform"),
     Req(<<"g", "o">>, "t1", "openai", "none"),
     Req(<<"h", "i">>, "t2", "perplexity", "aws_terraform"),
     Req(<<"g", "o">>, "t2", "openai", "bogus_profile"),
     Req(TextBlank, "t1", "openai", "none"),
     Req(<<"h", "i">>, "t1", "bogus", "none")}

NoPayload ==
    [message |-> <<>>, threadId |-> None, provider |-> None,
     model |-> None, credentialSource |-> None, mcpServer |-> None]

----------------------------------------------------------------------------
(* The external collaborators *)

\* the tool names the model asks for: the second call of a response names a
\* tool that has no handler
TOOLS == <<"create_s3_bucket", "restart_server", "terraform_plan">>

\* the keys of the handlers dict of MCPAWSTerraformServer.execute_tool
handlers ==
    {"create_ec2_instance", "create_s3_bucket", "create_vpc", "create_rds_instance",
     "create_lambda_function", "terraform_plan", "terraform_apply", "terraform_destroy",
     "get_infrastructure_state", "get_user_permissions"}

\* the k tool calls a response of invocation inv of run r carries; the call
\* ids are the model backend's, unique over all responses
ToolCalls(r, inv, k) ==
    [i \in 1..k |-> [name |-> TOOLS[((i - 1) % Len(TOOLS)) + 1], id |-> <<r, inv, i>>]]

\* the text a model of that provider puts beside its tool calls
TextWithCalls(provider) == IF provider = "perplexity" THEN TextDone ELSE <<>>

\* what llm.invoke can return at invocation inv of run r
ModelResponses(r, inv) ==
    {AIMessage(c, <<>>) : c \in {<<>>, TextDone, TextLong}}
    \cup {AIMessage(TextWithCalls(payload[r].provider), ToolCalls(r, inv, k)) :
             k \in 1..MaxCalls}

\* what handler(parameters) can do: return a result or raise
ToolOutcomes ==
    {[raises |-> FALSE, success |-> TRUE, error |-> None, handled |-> TRUE],
     [raises |-> FALSE, success |-> FALSE, error |-> "tool failed", handled |-> TRUE],
     [raises |-> TRUE, success |-> FALSE, error |-> "tool raised", handled |-> TRUE]}

NotAuthenticated ==
    [raises |-> FALSE, success |-> FALSE, error |-> "User not authenticated",
     handled |-> FALSE]

UnknownTool ==
    [raises |-> FALSE, success |-> FALSE, error |-> "Unknown tool", handled |-> FALSE]

\* a failure of the session or of a handler, which the fault budget counts
Fault(o) == ~o.success /\ o # UnknownTool

\* aws_mcp.execute_tool, were every tool name routed to a handler
aws_mcp_execute_tool_no_lookup(tool_name) ==
    {NotAuthenticated} \cup ToolOutcomes

\* MCPAWSTerraformServer.execute_tool: no identity and no session, or no
\* handler of that name, or what the handler does.  For a name that has a
\* handler the failure of the session is not told apart from a failure the
\* handler returns: the stream treats the two alike
aws_mcp_execute_tool(tool_name) ==
    IF tool_name \in handlers THEN ToolOutcomes ELSE {NotAuthenticated, UnknownTool}

----------------------------------------------------------------------------
(* State after the module is loaded *)

\* per run: the model invocations made, the tool calls the model requested,
\* the call ids passed to aws_mcp.execute_tool, the call ids a handler ran
\* for, the outcome of every call dispatched, the roles of the messages the
\* request appended to the history, and whether initialize_llm or llm.invoke raised
NoLog ==
    [invocations |-> 0, requested |-> <<>>, executed |-> <<>>, handled |-> <<>>,
     results |-> <<>>, appended |-> <<>>, init_failed |-> FALSE, model_failed |-> FALSE]

\* the credential sources, holding nothing
NoCredentials ==
    [keyring |-> None, azure |-> "no url", aws |-> "no region", environ |-> None,
     dotenv |-> None]
NoKeyCall == [provider |-> None, preferred_source |-> None]
NoKeyResult == [outcome |-> None, api_key |-> None, consulted |-> <<>>]

\* the CLI session: the lines read, the model invocations and the tool calls
\* requested and executed of the query in hand, the faults of the session,
\* whether the query in hand ended in the except clause, and the "clear"
\* commands obeyed
NoCliLog ==
    [queries |-> 0, invocations |-> 0, requested |-> <<>>, executed |-> <<>>,
     tool_calls |-> 0, faults |-> 0, failed |-> FALSE, cleared |-> 0]

\* the server after agui_server.py is loaded
InitApi(tool_calls, in_flight) ==
    /\ MCP_AVAILABLE \in BOOLEAN
    /\ conversation_store = <<>>
    /\ llm_cache = <<>>
    /\ handler = NoHandler
    /\ http_status = 0
    /\ nreq = 0
    /\ nruns = 0
    /\ ninits = 0
    /\ payload = [r \in Runs |-> NoPayload]
    /\ pc = [r \in Runs |-> "idle"]
    /\ events = [r \in Runs |-> <<>>]
    /\ llm = [r \in Runs |-> 0]
    /\ iteration = [r \in Runs |-> 0]
    /\ response = [r \in Runs |-> NoResponse]
    /\ tc = [r \in Runs |-> 0]
    /\ result = [r \in Runs |-> NoResult]
    /\ budget = [tool_calls |-> tool_calls, faults |-> MaxFaults,
                 long_texts |-> MaxLongTexts, in_flight |-> in_flight]
    /\ log = [r \in Runs |-> NoLog]

\* the CLI agent when it enters its interactive query loop
InitCli ==
    /\ conversation_history = <<SystemMessage(SYSTEM_PROMPT)>>
    /\ cli_pc = "input"
    /\ cli_iteration = 0
    /\ cli_response = NoResponse
    /\ cli_tc = 0
    /\ cli_printed = <<>>
    /\ cli_log = NoCliLog

\* no call of get_api_key
InitNoKeyCall ==
    /\ credentials = NoCredentials
    /\ key_call = NoKeyCall
    /\ key_result = NoKeyResult

\* the project directories the handlers and the calls name
Projects ==
    {"ec2_t2.micro_us-east-1", "s3_b1", "vpc_us-east-1", "rds_db1", "rds_None",
     "lambda_f1", "lambda_None"}

\* the files the handlers and terraform plan write in a project directory
ProjectFiles == {"main.tf", "lambda_function_payload.zip", "tfplan"}

\* the entry of a project directory itself among the paths of the workspace
Dir == "."

\* project_path exists
is_dir(paths, project) == <<project, Dir>> \in paths

\* the files of the project directory
files_of(paths, project) == {f \in ProjectFiles : <<project, f>> \in paths}

NoToolCall == [name |-> None, parameters |-> <<>>]
NoToolEnv == [permission |-> None]

\* the tool server after construction, before any call
InitNoToolCall ==
    /\ identity = None
    /\ workspace = {}
    /\ mcp_call = NoToolCall
    /\ mcp_env = NoToolEnv
    /\ mcp_result = NoResult
    /\ mcp_commands = <<>>
    /\ mcp_runs = 0

InitWith(tool_calls, in_flight) ==
    /\ InitApi(tool_calls, in_flight)
    /\ InitCli
    /\ InitNoKeyCall
    /\ InitNoToolCall

\* the runs may overlap
Init == InitWith(MaxToolCalls, Cardinality(Runs))

InFlight == {r \in Runs : pc[r] \notin {"idle", "done"}}

----------------------------------------------------------------------------
(* run_agent: the request handler *)

\* setdefault, were the store rebuilt when a thread is new
setdefault_rebuild(store, thread_id) ==
    IF thread_id \in DOMAIN store THEN store ELSE (thread_id :> <<>>)

\* conversation_store.setdefault(thread_id, [])
setdefault(store, thread_id) ==
    IF thread_id \in DOMAIN store THEN store ELSE store @@ (thread_id :> <<>>)

\* the history, were the system prompt put in front on every request
seeded_every_request(history) == <<SystemMessage(SYSTEM_PROMPT)>> \o history

\* the history, seeded with the system prompt when it is empty
seeded(history) ==
    IF history = <<>> THEN <<SystemMessage(SYSTEM_PROMPT)>> ELSE history

\* history[-1].content = text
set_last_content(history, text) ==
    [history EXCEPT ![Len(history)].content = text]

\* run_agent, were the thread looked up before the request is validated
run_agent_reject_after_setdefault(p) ==
    /\ handler = NoHandler
    /\ nreq < Cardinality(Runs)
    /\ \/ strip(p.message) = <<>>
       \/ p.provider \notin SUPPORTED_LLMS
    /\ nreq' = nreq + 1
    /\ http_status' = 400
    /\ conversation_store' = setdefault(conversation_store, p.threadId)
    /\ UNCHANGED <<MCP_AVAILABLE, llm_cache, handler, nruns, ninits, payload, pc,
                   budget, log>>
    /\ UNCHANGED streamVars
    /\ UNCHANGED <<cliVars, keyVars, toolVars>>

\* the two HTTPException(400) of run_agent
run_agent_reject(p) ==
    /\ handler = NoHandler
    /\ nreq < Cardinality(Runs)
    /\ \/ strip(p.message) = <<>>
       \/ p.provider \notin SUPPORTED_LLMS
    /\ nreq' = nreq + 1
    /\ http_status' = 400
    /\ UNCHANGED <<MCP_AVAILABLE, conversation_store, llm_cache, handler, nruns,
                   ninits, payload, pc, budget, log>>
    /\ UNCHANGED streamVars
    /\ UNCHANGED <<cliVars, keyVars, toolVars>>

\* run_agent for a valid request, up to its append of the user message or to
\* its test of history[-1] when that is a user message
run_agent(p) ==
    /\ handler = NoHandler
    /\ nreq < Cardinality(Runs)
    /\ Cardinality(InFlight) < budget.in_flight
    /\ strip(p.message) # <<>>
    /\ p.provider \in SUPPORTED_LLMS
    /\ nreq' = nreq + 1
    /\ LET run_id == nruns + 1
           thread_id == p.threadId
           store == setdefault(conversation_store, thread_id)
           history == seeded(store[thread_id])
       IN /\ nruns' = run_id
          /\ payload' = [payload EXCEPT ![run_id] = p]
          /\ IF history[Len(history)].role # "human"
             THEN /\ conversation_store' =
                         [store EXCEPT ![thread_id] = Append(history, HumanMessage(p.message))]
                  /\ pc' = [pc EXCEPT ![run_id] = "start"]
                  /\ http_status' = 200
                  /\ log' = [log EXCEPT ![run_id].appended = Append(@, "human")]
                  /\ UNCHANGED handler
             ELSE /\ conversation_store' = [store EXCEPT ![thread_id] = history]
                  /\ handler' = [run |-> run_id]
                  /\ pc' = [pc EXCEPT ![run_id] = "accepted"]
                  /\ UNCHANGED <<http_status, log>>
    /\ UNCHANGED <<MCP_AVAILABLE, llm_cache, ninits, budget>>
    /\ UNCHANGED streamVars
    /\ UNCHANGED <<cliVars, keyVars, toolVars>>

\* run_agent after its test found a user message last: history[-1].content
\* is set, on the history as it is by then
run_agent_overwrite ==
    /\ handler # NoHandler
    /\ LET run_id == handler.run
           thread_id == payload[run_id].threadId
       IN /\ conversation_store' =
                 [conversation_store EXCEPT
                     ![thread_id] = set_last_content(@, payload[run_id].message)]
          /\ pc' = [pc EXCEPT ![run_id] = "start"]
    /\ handler' = NoHandler
    /\ http_status' = 200
    /\ UNCHANGED <<MCP_AVAILABLE, llm_cache, nreq, nruns, ninits, payload, budget, log>>
    /\ UNCHANGED streamVars
    /\ UNCHANGED <<cliVars, keyVars, toolVars>>

----------------------------------------------------------------------------
(* stream(): the generator of one run *)

Event(type) == [type |-> type, delta |-> <<>>, toolName |-> None, result |-> NoResult]
ContentEvent(delta) == [Event("TEXT_MESSAGE_CONTENT") EXCEPT !.delta = delta]
ToolResultEvent(toolName, res) ==
    [Event("TOOL_RESULT") EXCEPT !.toolName = toolName, !.result = res]

\* RunError, were the exception to close the stream without an event
RunError_silent(r) ==
    /\ UNCHANGED events
    /\ pc' = [pc EXCEPT ![r] = "done"]
    /\ budget' = [budget EXCEPT !.faults = @ - 1]

\* the except clause of stream(): the exception ends the run with RUN_ERROR
RunError(r) ==
    /\ events' = [events EXCEPT ![r] = Append(@, Event("RUN_ERROR"))]
    /\ pc' = [pc EXCEPT ![r] = "done"]
    /\ budget' = [budget EXCEPT !.faults = @ - 1]

cache_key(p) ==
    <<p.provider,
      IF p.model = None THEN "" ELSE p.model,
      IF p.credentialSource = None THEN "auto" ELSE p.credentialSource,
      IF p.mcpServer = None THEN "none" ELSE p.mcpServer>>

\* the note stream() yields between get_llm and the loop
perplexity_note(p) ==
    IF p.provider = "perplexity" /\ p.mcpServer # "none"
    THEN <<ContentEvent(PerplexityNote)>>
    ELSE <<>>

\* loop_test, were the loop to spin at the cap instead of ending
loop_test_spin(it) == IF it < max_iterations THEN "invoke" ELSE "loop"

\* loop_test, were the loop to run once more at the cap
loop_test_off_by_one(it) == IF it <= max_iterations THEN "invoke" ELSE "finish"

\* while iteration < max_iterations: where the stream goes on
loop_test(it) == IF it < max_iterations THEN "invoke" ELSE "finish"

\* stream() from its start to the cache test of get_llm; on a hit, on to the loop
stream_start(r) ==
    /\ pc[r] = "start"
    /\ IF cache_key(payload[r]) \in DOMAIN llm_cache
       THEN /\ llm' = [llm EXCEPT ![r] = llm_cache[cache_key(payload[r])]]
            /\ events' = [events EXCEPT
                  ![r] = <<Event("RUN_STARTED"), Event("TEXT_MESSAGE_START")>>
                         \o perplexity_note(payload[r])]
            /\ pc' = [pc EXCEPT ![r] = loop_test(iteration[r])]
       ELSE /\ events' = [events EXCEPT
                  ![r] = <<Event("RUN_STARTED"), Event("TEXT_MESSAGE_START")>>]
            /\ pc' = [pc EXCEPT ![r] = "initialize_llm"]
            /\ UNCHANGED llm
    /\ UNCHANGED <<iteration, response, tc, result, budget, log>>
    /\ UNCHANGED serverVars
    /\ UNCHANGED <<cliVars, keyVars, toolVars>>

\* get_llm after a cache miss: initialize_llm, then llm_cache[cache_key] = llm
initialize_llm(r) ==
    /\ pc[r] = "initialize_llm"
    /\ \/ /\ budget.faults > 0
          /\ RunError(r)
          /\ log' = [log EXCEPT ![r].init_failed = TRUE]
          /\ UNCHANGED <<llm_cache, ninits, llm>>
       \/ /\ ninits' = ninits + 1
          /\ llm_cache' = [k \in DOMAIN llm_cache \cup {cache_key(payload[r])} |->
                              IF k = cache_key(payload[r]) THEN ninits + 1 ELSE llm_cache[k]]
          /\ llm' = [llm EXCEPT ![r] = ninits + 1]
          /\ events' = [events EXCEPT ![r] = @ \o perplexity_note(payload[r])]
          /\ pc' = [pc EXCEPT ![r] = loop_test(iteration[r])]
          /\ UNCHANGED <<budget, log>>
    /\ UNCHANGED <<MCP_AVAILABLE, conversation_store, handler, http_status,
                   nreq, nruns, payload>>
    /\ UNCHANGED <<iteration, response, tc, result>>
    /\ UNCHANGED <<cliVars, keyVars, toolVars>>

\* invoke, were the history cut back to the system prompt when llm.invoke
\* fails
invoke_rollback(r) ==
    /\ pc[r] = "invoke"
    /\ \/ /\ budget.faults > 0
          /\ RunError(r)
          /\ log' = [log EXCEPT ![r].invocations = @ + 1, ![r].model_failed = TRUE]
          /\ conversation_store' =
                [conversation_store EXCEPT ![payload[r].threadId] = SubSeq(@, 1, 1)]
          /\ UNCHANGED response
       \/ \E resp \in ModelResponses(r, log[r].invocations + 1) :
             /\ Len(resp.tool_calls) <= budget.tool_calls
             /\ Len(resp.content) > chunk_size => budget.long_texts > 0
             /\ response' = [response EXCEPT ![r] = resp]
             /\ budget' = [budget EXCEPT
                   !.tool_calls = @ - Len(resp.tool_calls),
                   !.long_texts = IF Len(resp.content) > chunk_size THEN @ - 1 ELSE @]
             /\ log' = [log EXCEPT ![r].invocations = @ + 1,
                                   ![r].requested = @ \o resp.tool_calls]
             /\ pc' = [pc EXCEPT ![r] = "append_response"]
             /\ UNCHANGED <<events, conversation_store>>
    /\ UNCHANGED <<llm, iteration, tc, result>>
    /\ UNCHANGED <<MCP_AVAILABLE, llm_cache, handler, http_status, nreq, nruns, ninits,
                   payload>>
    /\ UNCHANGED <<cliVars, keyVars, toolVars>>

\* invoke, were a failure of llm.invoke swallowed and an empty answer used
invoke_swallow(r) ==
    /\ pc[r] = "invoke"
    /\ \/ /\ budget.faults > 0
          /\ budget' = [budget EXCEPT !.faults = @ - 1]
          /\ log' = [log EXCEPT ![r].invocations = @ + 1, ![r].model_failed = TRUE]
          /\ response' = [response EXCEPT ![r] = AIMessage(<<>>, <<>>)]
          /\ pc' = [pc EXCEPT ![r] = "finish"]
          /\ UNCHANGED events
       \/ \E resp \in ModelResponses(r, log[r].invocations + 1) :
             /\ Len(resp.tool_calls) <= budget.tool_calls
             /\ Len(resp.content) > chunk_size => budget.long_texts > 0
             /\ response' = [response EXCEPT ![r] = resp]
             /\ budget' = [budget EXCEPT
                   !.tool_calls = @ - Len(resp.tool_calls),
                   !.long_texts = IF Len(resp.content) > chunk_size THEN @ - 1 ELSE @]
             /\ log' = [log EXCEPT ![r].invocations = @ + 1,
                                   ![r].requested = @ \o resp.tool_calls]
             /\ pc' = [pc EXCEPT ![r] = "append_response"]
             /\ UNCHANGED events
    /\ UNCHANGED <<llm, iteration, tc, result>>
    /\ UNCHANGED serverVars
    /\ UNCHANGED <<cliVars, keyVars, toolVars>>

\* response = llm.invoke(history)
invoke(r) ==
    /\ pc[r] = "invoke"
    /\ \/ /\ budget.faults > 0
          /\ RunError(r)
          /\ log' = [log EXCEPT ![r].invocations = @ + 1, ![r].model_failed = TRUE]
          /\ UNCHANGED response
       \/ \E resp \in ModelResponses(r, log[r].invocations + 1) :
             /\ Len(resp.tool_calls) <= budget.tool_calls
             /\ Len(resp.content) > chunk_size => budget.long_texts > 0
             /\ response' = [response EXCEPT ![r] = resp]
             /\ budget' = [budget EXCEPT
                   !.tool_calls = @ - Len(resp.tool_calls),
                   !.long_texts = IF Len(resp.content) > chunk_size THEN @ - 1 ELSE @]
             /\ log' = [log EXCEPT ![r].invocations = @ + 1,
                                   ![r].requested = @ \o resp.tool_calls]
             /\ pc' = [pc EXCEPT ![r] = "append_response"]
             /\ UNCHANGED events
    /\ UNCHANGED <<llm, iteration, tc, result>>
    /\ UNCHANGED serverVars
    /\ UNCHANGED <<cliVars, keyVars, toolVars>>

\* history.append(response), and the test of response.tool_calls
append_response(r) ==
    /\ pc[r] = "append_response"
    /\ conversation_store' =
          [conversation_store EXCEPT ![payload[r].threadId] = Append(@, response[r])]
    /\ IF response[r].tool_calls # <<>>
       THEN /\ tc' = [tc EXCEPT ![r] = 1]
            /\ pc' = [pc EXCEPT ![r] = "execute_tool"]
       ELSE /\ pc' = [pc EXCEPT ![r] = "finish"]
            /\ UNCHANGED tc
    /\ log' = [log EXCEPT ![r].appended = Append(@, "ai")]
    /\ UNCHANGED <<MCP_AVAILABLE, llm_cache, handler, http_status, nreq, nruns, ninits,
                   payload, budget>>
    /\ UNCHANGED <<events, llm, iteration, response, result>>
    /\ UNCHANGED <<cliVars, keyVars, toolVars>>

\* execute_tool, were an exception of aws_mcp.execute_tool not caught in the
\* loop
execute_tool_raise_escapes(r) ==
    /\ pc[r] = "execute_tool"
    /\ LET tool_call == response[r].tool_calls[tc[r]]
       IN IF payload[r].mcpServer = "aws_terraform" /\ MCP_AVAILABLE
          THEN \E o \in aws_mcp_execute_tool(tool_call.name) :
                  /\ Fault(o) => budget.faults > 0
                  /\ log' = [log EXCEPT
                        ![r].executed = Append(@, tool_call.id),
                        ![r].handled = IF o.handled THEN Append(@, tool_call.id) ELSE @,
                        ![r].results = Append(@, [id |-> tool_call.id, success |-> o.success])]
                  /\ result' = [result EXCEPT
                                   ![r] = [success |-> o.success, error |-> o.error]]
                  /\ IF o.raises
                     THEN RunError(r)
                     ELSE /\ budget' = [budget EXCEPT
                                          !.faults = IF Fault(o) THEN @ - 1 ELSE @]
                          /\ events' =
                                [events EXCEPT
                                    ![r] = Append(@, ToolResultEvent(tool_call.name,
                                               [success |-> o.success, error |-> o.error]))]
                          /\ pc' = [pc EXCEPT ![r] = "append_tool"]
          ELSE /\ result' = [result EXCEPT
                                ![r] = [success |-> FALSE, error |-> "MCP server not found"]]
               /\ log' = [log EXCEPT
                     ![r].results = Append(@, [id |-> tool_call.id, success |-> FALSE])]
               /\ pc' = [pc EXCEPT ![r] = "append_tool"]
               /\ UNCHANGED <<events, budget>>
    /\ UNCHANGED <<llm, iteration, response, tc>>
    /\ UNCHANGED serverVars
    /\ UNCHANGED <<cliVars, keyVars, toolVars>>

\* execute_tool, were the profile of the request not tested
execute_tool_any_profile(r) ==
    /\ pc[r] = "execute_tool"
    /\ LET tool_call == response[r].tool_calls[tc[r]]
       IN IF MCP_AVAILABLE
          THEN \E o \in aws_mcp_execute_tool(tool_call.name) :
                  /\ Fault(o) => budget.faults > 0
                  /\ budget' = [budget EXCEPT !.faults = IF Fault(o) THEN @ - 1 ELSE @]
                  /\ log' = [log EXCEPT
                        ![r].executed = Append(@, tool_call.id),
                        ![r].handled = IF o.handled THEN Append(@, tool_call.id) ELSE @,
                        ![r].results = Append(@, [id |-> tool_call.id, success |-> o.success])]
                  /\ result' = [result EXCEPT
                                   ![r] = [success |-> o.success, error |-> o.error]]
                  /\ events' =
                        [events EXCEPT
                            ![r] = IF o.raises THEN @
                                   ELSE Append(@, ToolResultEvent(tool_call.name,
                                           [success |-> o.success, error |-> o.error]))]
          ELSE /\ result' = [result EXCEPT
                                ![r] = [success |-> FALSE, error |-> "MCP server not found"]]
               /\ log' = [log EXCEPT
                     ![r].results = Append(@, [id |-> tool_call.id, success |-> FALSE])]
               /\ UNCHANGED <<events, budget>>
    /\ pc' = [pc EXCEPT ![r] = "append_tool"]
    /\ UNCHANGED <<llm, iteration, response, tc>>
    /\ UNCHANGED serverVars
    /\ UNCHANGED <<cliVars, keyVars, toolVars>>

\* one tool call of the for loop, up to the history.append of its branch:
\* aws_mcp.execute_tool and the yield of its result, or the exception, or no
\* execution when the profile is not aws_terraform or aws_mcp is None
execute_tool(r) ==
    /\ pc[r] = "execute_tool"
    /\ LET tool_call == response[r].tool_calls[tc[r]]
       IN IF payload[r].mcpServer = "aws_terraform" /\ MCP_AVAILABLE
          THEN \E o \in aws_mcp_execute_tool(tool_call.name) :
                  /\ Fault(o) => budget.faults > 0
                  /\ budget' = [budget EXCEPT !.faults = IF Fault(o) THEN @ - 1 ELSE @]
                  /\ log' = [log EXCEPT
                        ![r].executed = Append(@, tool_call.id),
                        ![r].handled = IF o.handled THEN Append(@, tool_call.id) ELSE @,
                        ![r].results = Append(@, [id |-> tool_call.id, success |-> o.success])]
                  /\ result' = [result EXCEPT
                                   ![r] = [success |-> o.success, error |-> o.error]]
                  /\ events' =
                        [events EXCEPT
                            ![r] = IF o.raises THEN @
                                   ELSE Append(@, ToolResultEvent(tool_call.name,
                                           [success |-> o.success, error |-> o.error]))]
          ELSE /\ result' = [result EXCEPT
                                ![r] = [success |-> FALSE, error |-> "MCP server not found"]]
               /\ log' = [log EXCEPT
                     ![r].results = Append(@, [id |-> tool_call.id, success |-> FALSE])]
               /\ UNCHANGED <<events, budget>>
    /\ pc' = [pc EXCEPT ![r] = "append_tool"]
    /\ UNCHANGED <<llm, iteration, response, tc>>
    /\ UNCHANGED serverVars
    /\ UNCHANGED <<cliVars, keyVars, toolVars>>

\* append_tool, were the except branch to append no ToolMessage
append_tool_skip_raised(r) ==
    /\ pc[r] = "append_tool"
    /\ conversation_store' =
          [conversation_store EXCEPT
              ![payload[r].threadId] =
                  IF result[r].error = "tool raised" THEN @
                  ELSE Append(@, ToolMessage(json_dumps(result[r]),
                                             response[r].tool_calls[tc[r]].id))]
    /\ IF tc[r] < Len(response[r].tool_calls)
       THEN /\ tc' = [tc EXCEPT ![r] = @ + 1]
            /\ pc' = [pc EXCEPT ![r] = "execute_tool"]
            /\ UNCHANGED iteration
       ELSE /\ iteration' = [iteration EXCEPT ![r] = @ + 1]
            /\ pc' = [pc EXCEPT ![r] = loop_test(iteration[r] + 1)]
            /\ UNCHANGED tc
    /\ log' = [log EXCEPT
          ![r].appended = IF result[r].error = "tool raised" THEN @ ELSE Append(@, "tool")]
    /\ UNCHANGED <<MCP_AVAILABLE, llm_cache, handler, http_status, nreq, nruns, ninits,
                   payload, budget>>
    /\ UNCHANGED <<events, llm, response, result>>
    /\ UNCHANGED <<cliVars, keyVars, toolVars>>

\* history.append(ToolMessage(...)) of the branch taken, then the next tool
\* call, or iteration += 1 and the loop test
append_tool(r) ==
    /\ pc[r] = "append_tool"
    /\ conversation_store' =
          [conversation_store EXCEPT
              ![payload[r].threadId] =
                  Append(@, ToolMessage(json_dumps(result[r]),
                                        response[r].tool_calls[tc[r]].id))]
    /\ IF tc[r] < Len(response[r].tool_calls)
       THEN /\ tc' = [tc EXCEPT ![r] = @ + 1]
            /\ pc' = [pc EXCEPT ![r] = "execute_tool"]
            /\ UNCHANGED iteration
       ELSE /\ iteration' = [iteration EXCEPT ![r] = @ + 1]
            /\ pc' = [pc EXCEPT ![r] = loop_test(iteration[r] + 1)]
            /\ UNCHANGED tc
    /\ log' = [log EXCEPT ![r].appended = Append(@, "tool")]
    /\ UNCHANGED <<MCP_AVAILABLE, llm_cache, handler, http_status, nreq, nruns, ninits,
                   payload, budget>>
    /\ UNCHANGED <<events, llm, response, result>>
    /\ UNCHANGED <<cliVars, keyVars, toolVars>>

\* final_response_text, were the content used as it is
final_response_text_content_only(resp) == resp.content

\* final_response_text, were there no text for an empty answer
final_response_text_no_fallback(resp) ==
    IF strip(resp.content) = <<>> /\ resp.tool_calls # <<>>
    THEN FallbackInitiated
    ELSE resp.content

\* the final text: the last response's content or a fallback
final_response_text(resp) ==
    IF strip(resp.content) # <<>> THEN resp.content
    ELSE IF resp.tool_calls # <<>> THEN FallbackInitiated
    ELSE FallbackNoResponse

\* chunks, were the slice one character short
RECURSIVE chunks_short(_, _)
chunks_short(text, offset) ==
    IF offset >= Len(text) THEN <<>>
    ELSE <<SubSeq(text, offset + 1,
                  IF offset + chunk_size - 1 < Len(text)
                  THEN offset + chunk_size - 1 ELSE Len(text))>>
         \o chunks_short(text, offset + chunk_size)

\* [text[i : i + chunk_size] for i in range(offset, len(text), chunk_size)]
RECURSIVE chunks(_, _)
chunks(text, offset) ==
    IF offset >= Len(text) THEN <<>>
    ELSE <<SubSeq(text, offset + 1,
                  IF offset + chunk_size < Len(text) THEN offset + chunk_size ELSE Len(text))>>
         \o chunks(text, offset + chunk_size)

\* finish, were TEXT_MESSAGE_END yielded before the chunks
finish_end_first(r) ==
    /\ pc[r] = "finish"
    /\ LET deltas == chunks(final_response_text(response[r]), 0)
       IN events' = [events EXCEPT
              ![r] = @ \o <<Event("TEXT_MESSAGE_END")>>
                       \o [i \in 1..Len(deltas) |-> ContentEvent(deltas[i])]
                       \o <<Event("RUN_FINISHED")>>]
    /\ pc' = [pc EXCEPT ![r] = "done"]
    /\ UNCHANGED <<llm, iteration, response, tc, result, budget, log>>
    /\ UNCHANGED serverVars
    /\ UNCHANGED <<cliVars, keyVars, toolVars>>

\* stream() after the loop: the chunks of the final text, TEXT_MESSAGE_END
\* and RUN_FINISHED
finish(r) ==
    /\ pc[r] = "finish"
    /\ LET deltas == chunks(final_response_text(response[r]), 0)
       IN events' = [events EXCEPT
              ![r] = @ \o [i \in 1..Len(deltas) |-> ContentEvent(deltas[i])]
                       \o <<Event("TEXT_MESSAGE_END"), Event("RUN_FINISHED")>>]
    /\ pc' = [pc EXCEPT ![r] = "done"]
    /\ UNCHANGED <<llm, iteration, response, tc, result, budget, log>>
    /\ UNCHANGED serverVars
    /\ UNCHANGED <<cliVars, keyVars, toolVars>>

stream(r) ==
    \/ stream_start(r)
    \/ initialize_llm(r)
    \/ invoke(r)
    \/ append_response(r)
    \/ execute_tool(r)
    \/ append_tool(r)
    \/ finish(r)

----------------------------------------------------------------------------
(* langchain-agent.py: the interactive query loop of the CLI agent *)

\* str.lower(), on the letters the user types
lower_char(c) ==
    CASE c = "C" -> "c"
      [] c = "Q" -> "q"
      [] c = "H" -> "h"
      [] OTHER -> c

lower(s) == [i \in 1..Len(s) |-> lower_char(s[i])]

QuitWords == {<<"q", "u", "i", "t">>, <<"e", "x", "i", "t">>, <<"q">>, <<"x">>}
HelpWord == <<"h", "e", "l", "p">>
ClearWord == <<"c", "l", "e", "a", "r">>

\* the lines the user types
UserInputs ==
    {<<"h", "i">>, <<"g", "o">>, <<" ">>, <<"Q">>, <<"h", "e", "l", "p">>,
     <<" ", "C", "l", "e", "a", "r">>}

\* the texts a response carries beside its tool calls: none, or a text where
\* it shows, in the response at the cap
CliTextsWithCalls(inv) ==
    IF inv = cli_max_iterations THEN {<<>>, TextDone} ELSE {<<>>}

\* what llm.invoke can return at invocation inv of query q: an answer, or
\* tool calls
CliModelResponses(q, inv) ==
    {AIMessage(TextDone, <<>>)}
    \cup {AIMessage(c, ToolCalls(q, inv, k)) :
             c \in CliTextsWithCalls(inv), k \in 1..MaxCalls}

\* cli_loop_test, were the loop to allow one more iteration
cli_loop_test_lenient(it) == IF it <= cli_max_iterations THEN "invoke" ELSE "input"

\* while iteration < max_iterations: on to llm.invoke, or back to input()
cli_loop_test(it) == IF it < cli_max_iterations THEN "invoke" ELSE "input"

\* input(), when the line is none of the commands and not empty
IsQuery(user_query) ==
    /\ lower(user_query) \notin QuitWords \cup {HelpWord, ClearWord}
    /\ user_query # <<>>

\* "quit", "exit", "q" or "x": break
cli_quit(line) ==
    /\ cli_pc = "input"
    /\ cli_log.queries < MaxQueries
    /\ lower(strip(line)) \in QuitWords
    /\ cli_pc' = "exited"
    /\ cli_log' = [cli_log EXCEPT !.queries = @ + 1]
    /\ UNCHANGED <<conversation_history, cli_iteration, cli_response, cli_tc, cli_printed>>
    /\ UNCHANGED <<apiVars, keyVars, toolVars>>

\* "help", and the empty line: continue
cli_continue(line) ==
    /\ cli_pc = "input"
    /\ cli_log.queries < MaxQueries
    /\ LET user_query == strip(line)
       IN /\ lower(user_query) \notin QuitWords
          /\ \/ lower(user_query) = HelpWord
             \/ lower(user_query) # ClearWord /\ user_query = <<>>
    /\ cli_log' = [cli_log EXCEPT !.queries = @ + 1]
    /\ UNCHANGED <<conversation_history, cli_pc, cli_iteration, cli_response, cli_tc,
                   cli_printed>>
    /\ UNCHANGED <<apiVars, keyVars, toolVars>>

\* "clear", were the last message kept
cli_clear_keep_last(line) ==
    /\ cli_pc = "input"
    /\ cli_log.queries < MaxQueries
    /\ lower(strip(line)) \notin QuitWords \cup {HelpWord}
    /\ lower(strip(line)) = ClearWord
    /\ conversation_history' =
          <<SystemMessage(SYSTEM_PROMPT), conversation_history[Len(conversation_history)]>>
    /\ cli_log' = [cli_log EXCEPT !.queries = @ + 1, !.cleared = @ + 1]
    /\ UNCHANGED <<cli_pc, cli_iteration, cli_response, cli_tc, cli_printed>>
    /\ UNCHANGED <<apiVars, keyVars, toolVars>>

\* "clear": conversation_history = [SystemMessage(content=system_prompt)]
cli_clear(line) ==
    /\ cli_pc = "input"
    /\ cli_log.queries < MaxQueries
    /\ lower(strip(line)) \notin QuitWords \cup {HelpWord}
    /\ lower(strip(line)) = ClearWord
    /\ conversation_history' = <<SystemMessage(SYSTEM_PROMPT)>>
    /\ cli_log' = [cli_log EXCEPT !.queries = @ + 1, !.cleared = @ + 1]
    /\ UNCHANGED <<cli_pc, cli_iteration, cli_response, cli_tc, cli_printed>>
    /\ UNCHANGED <<apiVars, keyVars, toolVars>>

\* a query: conversation_history.append(HumanMessage(content=user_query)),
\* iteration = 0 and the loop test
cli_query(line) ==
    /\ cli_pc = "input"
    /\ cli_log.queries < MaxQueries
    /\ IsQuery(strip(line))
    /\ conversation_history' = Append(conversation_history, HumanMessage(strip(line)))
    /\ cli_iteration' = 0
    /\ cli_pc' = cli_loop_test(0)
    /\ cli_log' = [cli_log EXCEPT !.queries = @ + 1, !.invocations = 0,
                                  !.requested = <<>>, !.executed = <<>>,
                                  !.failed = FALSE]
    /\ UNCHANGED <<cli_response, cli_tc, cli_printed>>
    /\ UNCHANGED <<apiVars, keyVars, toolVars>>

\* response = llm.invoke(conversation_history) and the append of the
\* response; the answer is printed when it has no tool calls; an exception
\* goes to the except clause of the outer loop, which prints it and goes on
cli_invoke ==
    /\ cli_pc = "invoke"
    /\ \/ /\ cli_log.faults < MaxCliFaults
          /\ cli_log' = [cli_log EXCEPT !.invocations = @ + 1, !.faults = @ + 1,
                                        !.failed = TRUE]
          /\ cli_pc' = "input"
          /\ UNCHANGED <<conversation_history, cli_response, cli_tc, cli_printed>>
       \/ \E resp \in CliModelResponses(cli_log.queries, cli_log.invocations + 1) :
             /\ cli_log.tool_calls + Len(resp.tool_calls) <= MaxCliToolCalls
             /\ cli_response' = resp
             /\ conversation_history' = Append(conversation_history, resp)
             /\ cli_log' = [cli_log EXCEPT !.invocations = @ + 1,
                                           !.requested = @ \o resp.tool_calls,
                                           !.tool_calls = @ + Len(resp.tool_calls)]
             /\ IF resp.tool_calls # <<>>
                THEN /\ cli_tc' = 1
                     /\ cli_pc' = "execute_tool"
                     /\ UNCHANGED cli_printed
                ELSE /\ cli_printed' =
                           Append(cli_printed, [query |-> cli_log.queries,
                                                text |-> resp.content])
                     /\ cli_pc' = "input"
                     /\ UNCHANGED cli_tc
    /\ UNCHANGED cli_iteration
    /\ UNCHANGED <<apiVars, keyVars, toolVars>>

\* one tool call of the for loop: aws_mcp.execute_tool and the append of a
\* ToolMessage in each of the three branches; after the last call
\* iteration += 1 and the loop test
cli_execute_tool ==
    /\ cli_pc = "execute_tool"
    /\ LET tool_call == cli_response.tool_calls[cli_tc]
       IN IF MCP_AVAILABLE
          THEN \E o \in aws_mcp_execute_tool(tool_call.name) :
                  /\ Fault(o) => cli_log.faults < MaxCliFaults
                  /\ cli_log' = [cli_log EXCEPT
                        !.executed = Append(@, tool_call.id),
                        !.faults = IF Fault(o) THEN @ + 1 ELSE @]
                  /\ conversation_history' =
                        Append(conversation_history,
                               ToolMessage(json_dumps([success |-> o.success,
                                                       error |-> o.error]),
                                           tool_call.id))
          ELSE /\ conversation_history' =
                     Append(conversation_history,
                            ToolMessage(json_dumps([success |-> FALSE,
                                                    error |-> "MCP server not available"]),
                                        tool_call.id))
               /\ UNCHANGED cli_log
    /\ IF cli_tc < Len(cli_response.tool_calls)
       THEN /\ cli_tc' = cli_tc + 1
            /\ UNCHANGED <<cli_pc, cli_iteration>>
       ELSE /\ cli_iteration' = cli_iteration + 1
            /\ cli_pc' = cli_loop_test(cli_iteration + 1)
            /\ UNCHANGED cli_tc
    /\ UNCHANGED <<cli_response, cli_printed>>
    /\ UNCHANGED <<apiVars, keyVars, toolVars>>

----------------------------------------------------------------------------
(* llm_config.py: get_api_key *)

Raises == "raises"

\* config["env_var"] of the provider
env_var(provider) ==
    CASE provider = "perplexity" -> "PERPLEXITY_API_KEY"
      [] provider = "openai" -> "OPENAI_API_KEY"
      [] provider = "gemini" -> "GOOGLE_API_KEY"
      [] provider = "claude" -> "ANTHROPIC_API_KEY"
      [] OTHER -> None

\* what the credential sources can hold: the keyring an entry, none, or a
\* failing backend; the vault and the secrets manager a secret, no address
\* configured, or a failing lookup; the process environment and the .env file
\* a value or none
CredentialStates ==
    [keyring : {None, "keyring-key", Raises},
     azure : {"no url", "azure-key", Raises},
     aws : {"no region", "aws-key", Raises},
     environ : {None, "env-key"},
     dotenv : {None, "dotenv-key"}]

\* the calls made
KeyCalls ==
    [provider : {"openai", "ollama", "bogus"},
     preferred_source : {None, "local", "LOCAL", "azure", "aws", "env", "dotenv", "vault"}]

\* preferred_source.lower()
source_lower(preferred_source) ==
    IF preferred_source = "LOCAL" THEN "local" ELSE preferred_source

\* os.getenv(env_var) after load_dotenv(), which keeps a variable that is
\* already set
getenv(creds) == IF creds.environ # None THEN creds.environ ELSE creds.dotenv

Returned(key, consulted) ==
    [outcome |-> "return", api_key |-> key, consulted |-> consulted]
Raised(consulted) ==
    [outcome |-> "raise", api_key |-> None, consulted |-> consulted]

Holds(value) == value \notin {None, Raises, "no url", "no region"}

\* 5. AWS Secrets Manager, and the return None of the end
try_aws(creds, consulted) ==
    IF creds.aws = "no region" THEN Returned(None, consulted)
    ELSE IF Holds(creds.aws) THEN Returned(creds.aws, Append(consulted, "aws"))
    ELSE Returned(None, Append(consulted, "aws"))

\* 4. Azure KeyVault
try_azure(creds, consulted) ==
    IF creds.azure = "no url" THEN try_aws(creds, consulted)
    ELSE IF Holds(creds.azure) THEN Returned(creds.azure, Append(consulted, "azure"))
    ELSE try_aws(creds, Append(consulted, "azure"))

\* 3. Local Keyring
try_keyring(creds, consulted) ==
    IF Holds(creds.keyring) THEN Returned(creds.keyring, Append(consulted, "local"))
    ELSE try_azure(creds, Append(consulted, "local"))

\* "Default behavior: try all sources in order": 1. the environment variable,
\* 2. the .env file (the same lookup again), then 3. to 5.
auto_detect(provider, creds, consulted) ==
    IF env_var(provider) # None
    THEN IF getenv(creds) # None
         THEN Returned(getenv(creds), Append(consulted, "env"))
         ELSE try_keyring(creds, Append(consulted, "env"))
    ELSE try_keyring(creds, consulted)

\* the branch of the preferred source
preferred(provider, source, creds) ==
    CASE source = "local" ->
            IF creds.keyring = Raises THEN Raised(<<"local">>)
            ELSE IF Holds(creds.keyring) THEN Returned(creds.keyring, <<"local">>)
            ELSE auto_detect(provider, creds, <<"local">>)
      [] source = "azure" ->
            IF Holds(creds.azure) THEN Returned(creds.azure, <<"azure">>)
            ELSE Raised(<<"azure">>)
      [] source = "aws" ->
            IF Holds(creds.aws) THEN Returned(creds.aws, <<"aws">>)
            ELSE Raised(<<"aws">>)
      [] source \in {"env", "dotenv"} ->
            IF env_var(provider) # None /\ getenv(creds) # None
            THEN Returned(getenv(creds), <<"env">>)
            ELSE Raised(<<"env">>)
      [] OTHER -> Raised(<<>>)

get_api_key(provider, preferred_source, creds) ==
    IF provider \notin SUPPORTED_LLMS THEN Raised(<<>>)
    ELSE IF preferred_source # None
         THEN preferred(provider, source_lower(preferred_source), creds)
         ELSE auto_detect(provider, creds, <<>>)

\* a call of get_api_key, with the sources in any state
InitKeys ==
    /\ InitApi(MaxToolCalls, Cardinality(Runs))
    /\ InitCli
    /\ credentials \in CredentialStates
    /\ key_call \in KeyCalls
    /\ key_result = NoKeyResult
    /\ InitNoToolCall

call_get_api_key ==
    /\ key_call # NoKeyCall
    /\ key_result = NoKeyResult
    /\ key_result' = get_api_key(key_call.provider, key_call.preferred_source, credentials)
    /\ UNCHANGED <<credentials, key_call>>
    /\ UNCHANGED <<apiVars, cliVars, toolVars>>

----------------------------------------------------------------------------
(* mcp_servers/aws_terraform_server.py: MCPAWSTerraformServer.execute_tool,
   its handlers, and the operations of TerraformManager and AWSRBACManager
   they call.  A call is one action.  What IAM says of the handler's action
   and whether a terraform command exits with 0 are drawn per call; the
   workspace holds the project directories that exist and the files
   written in them.  What terraform apply and destroy do to AWS and to the
   state file is not modelled. *)

Arn == "arn"

\* f"{prefix}_{value}", on the values the calls carry
project_name_of(prefix, value) ==
    CASE prefix = "s3" /\ value = "b1" -> "s3_b1"
      [] prefix = "rds" /\ value = "db1" -> "rds_db1"
      [] prefix = "rds" /\ value = None -> "rds_None"
      [] prefix = "lambda" /\ value = "f1" -> "lambda_f1"
      [] prefix = "lambda" /\ value = None -> "lambda_None"

\* params.get(key, default)
get(parameters, key, default) ==
    IF key \in DOMAIN parameters THEN parameters[key] ELSE default

\* the "required" list of the tool's descriptor in list_tools
required(tool_name) ==
    CASE tool_name = "create_s3_bucket" -> {"bucket_name"}
      [] tool_name = "create_rds_instance" -> {"db_name"}
      [] tool_name = "create_lambda_function" -> {"function_name"}
      [] tool_name \in {"terraform_plan", "terraform_apply", "terraform_destroy",
                        "get_infrastructure_state"} -> {"project_name"}
      [] OTHER -> {}

\* the parameters a call of the tool can carry: any of its declared
\* parameters may be missing
ParametersOf(tool_name) ==
    CASE tool_name = "create_s3_bucket" -> {<<>>, [bucket_name |-> "b1"]}
      [] tool_name = "create_rds_instance" -> {<<>>, [db_name |-> "db1"]}
      [] tool_name = "create_lambda_function" -> {<<>>, [function_name |-> "f1"]}
      [] tool_name \in {"terraform_plan", "get_infrastructure_state"} ->
            {<<>>} \cup {[project_name |-> p] : p \in Projects \cup {""}}
      [] tool_name \in {"terraform_apply", "terraform_destroy"} ->
            {<<>>} \cup {[auto_approve |-> a] : a \in BOOLEAN}
            \cup {[project_name |-> p] : p \in Projects \cup {""}}
            \cup {[project_name |-> p, auto_approve |-> a] :
                     p \in Projects \cup {""}, a \in BOOLEAN}
      [] OTHER -> {<<>>}

\* what simulate_principal_policy says of the action, or that it raises
PermissionOutcomes == {"allowed", "denied", "error"}

\* AWSRBACManager.check_permission: an exception of the check allows
check_permission(outcome) ==
    CASE outcome = "allowed" -> TRUE
      [] outcome = "denied" -> FALSE
      [] OTHER -> TRUE

\* a dict returned by a handler
Result(success, error) ==
    [raises |-> FALSE, success |-> success, error |-> error, handled |-> TRUE]

\* an exception that leaves the handler
RaisedResult(error) ==
    [raises |-> TRUE, success |-> FALSE, error |-> error, handled |-> TRUE]

Command(cmd, project) == [cmd |-> cmd, project |-> project]

\* project_path.mkdir(parents=True, exist_ok=True) and the write of files
written(project, files) ==
    workspace \cup {<<project, Dir>>} \cup {<<project, f>> : f \in files}

\* TerraformManager._run_terraform: the command runs in the project
\* directory and its exit status is the result; without the directory
\* subprocess.run raises, which is caught and returned
run_terraform(cmd, project, ok) ==
    IF is_dir(workspace, project)
    THEN /\ mcp_commands' = <<Command(cmd, project)>>
         /\ mcp_result' = Result(ok, IF ok THEN None ELSE "terraform failed")
    ELSE /\ mcp_commands' = <<>>
         /\ mcp_result' = Result(FALSE, "No such file or directory")

\* subprocess.run of destroy and show_state, which catch the timeout only
run_subprocess(cmd, project, ok) ==
    IF is_dir(workspace, project)
    THEN /\ mcp_commands' = <<Command(cmd, project)>>
         /\ mcp_result' = Result(ok, IF ok THEN None ELSE "terraform failed")
    ELSE /\ mcp_commands' = <<>>
         /\ mcp_result' = RaisedResult("No such file or directory")

\* TerraformManager.init after the handler wrote its files: mkdir, then
\* terraform init, whose result the handler returns when it failed
init(project, files, ok) ==
    /\ workspace' = written(project, files)
    /\ mcp_commands' = <<Command("terraform init", project)>>
    /\ mcp_result' = Result(ok, IF ok THEN None ELSE "terraform failed")

\* a handler that returns before any effect
returns(res) ==
    /\ mcp_result' = res
    /\ mcp_commands' = <<>>
    /\ UNCHANGED workspace

NoPlanError == "No tfplan file found. Please run terraform_plan first."

\* TerraformManager.apply, were auto_approve tested before the plan file
apply_command_auto_first(has_plan, auto_approve) ==
    IF auto_approve THEN "terraform apply -auto-approve -input=false"
    ELSE IF has_plan THEN "terraform apply -input=false tfplan"
    ELSE None

\* TerraformManager.apply: the command it builds, None when it returns the
\* error
apply_command(has_plan, auto_approve) ==
    IF has_plan THEN "terraform apply -input=false tfplan"
    ELSE IF auto_approve THEN "terraform apply -auto-approve -input=false"
    ELSE None

\* TerraformManager.destroy: the command it builds
destroy_command(auto_approve) ==
    IF auto_approve THEN "terraform destroy -auto-approve" ELSE "terraform destroy"

\* "if not project_name", "if not bucket_name"
falsy(value) == value = None \/ value = ""

\* execute_tool up to the call of the handler: the session has an identity,
\* or rbac.initialize() has just got one
routed(tool_name, parameters, permission) ==
    /\ mcp_runs < MaxToolRuns
    /\ mcp_runs' = mcp_runs + 1
    /\ identity' = Arn
    /\ mcp_call' = [name |-> tool_name, parameters |-> parameters]
    /\ mcp_env' = [permission |-> permission]

\* execute_tool without an identity, when rbac.initialize() fails
execute_tool_not_authenticated(tool_name, parameters) ==
    /\ mcp_runs < MaxToolRuns
    /\ mcp_runs' = mcp_runs + 1
    /\ identity = None
    /\ identity' = None
    /\ mcp_call' = [name |-> tool_name, parameters |-> parameters]
    /\ mcp_env' = NoToolEnv
    /\ returns(NotAuthenticated)
    /\ UNCHANGED <<apiVars, cliVars, keyVars>>

\* execute_tool for a name that is not a key of handlers
execute_tool_unknown(tool_name) ==
    /\ tool_name \notin handlers
    /\ routed(tool_name, <<>>, None)
    /\ returns(UnknownTool)
    /\ UNCHANGED <<apiVars, cliVars, keyVars>>

create_rds_instance(params, permission, ok) ==
    /\ routed("create_rds_instance", params, permission)
    /\ LET db_name == get(params, "db_name", None)
           project_name == project_name_of("rds", db_name)
       IN init(project_name, {"main.tf"}, ok)
    /\ UNCHANGED <<apiVars, cliVars, keyVars>>

create_lambda_function(params, permission, ok) ==
    /\ routed("create_lambda_function", params, permission)
    /\ LET function_name == get(params, "function_name", None)
           project_name == project_name_of("lambda", function_name)
       IN init(project_name, {"main.tf", "lambda_function_payload.zip"}, ok)
    /\ UNCHANGED <<apiVars, cliVars, keyVars>>

create_ec2_instance(params, permission, ok) ==
    /\ routed("create_ec2_instance", params, permission)
    /\ IF ~check_permission(permission)
       THEN returns(Result(FALSE, "User lacks ec2:RunInstances permission"))
       ELSE init("ec2_t2.micro_us-east-1", {"main.tf"}, ok)
    /\ UNCHANGED <<apiVars, cliVars, keyVars>>

create_s3_bucket(params, permission, ok) ==
    /\ routed("create_s3_bucket", params, permission)
    /\ LET bucket_name == get(params, "bucket_name", None)
       IN IF falsy(bucket_name)
          THEN returns(Result(FALSE, "bucket_name is required"))
          ELSE IF ~check_permission(permission)
          THEN returns(Result(FALSE, "User lacks s3:CreateBucket permission"))
          ELSE init(project_name_of("s3", bucket_name), {"main.tf"}, ok)
    /\ UNCHANGED <<apiVars, cliVars, keyVars>>

create_vpc(params, permission, ok) ==
    /\ routed("create_vpc", params, permission)
    /\ IF ~check_permission(permission)
       THEN returns(Result(FALSE, "User lacks ec2:CreateVpc permission"))
       ELSE init("vpc_us-east-1", {"main.tf"}, ok)
    /\ UNCHANGED <<apiVars, cliVars, keyVars>>

\* _terraform_plan and TerraformManager.plan: a plan that succeeds saves
\* tfplan in the project directory
terraform_plan(params, ok) ==
    /\ routed("terraform_plan", params, None)
    /\ LET project_name == get(params, "project_name", None)
       IN IF falsy(project_name)
          THEN returns(Result(FALSE, "project_name is required"))
          ELSE /\ run_terraform("terraform plan -out=tfplan -input=false",
                                project_name, ok)
               /\ workspace' = IF is_dir(workspace, project_name) /\ ok
                               THEN written(project_name, {"tfplan"})
                               ELSE workspace
    /\ UNCHANGED <<apiVars, cliVars, keyVars>>

\* _terraform_apply and TerraformManager.apply
terraform_apply(params, ok) ==
    /\ routed("terraform_apply", params, None)
    /\ LET project_name == get(params, "project_name", None)
           auto_approve == get(params, "auto_approve", FALSE)
       IN IF falsy(project_name)
          THEN returns(Result(FALSE, "project_name is required"))
          ELSE LET cmd == apply_command("tfplan" \in files_of(workspace, project_name),
                                        auto_approve)
               IN IF cmd = None
                  THEN returns(Result(FALSE, NoPlanError))
                  ELSE /\ run_terraform(cmd, project_name, ok)
                       /\ UNCHANGED workspace
    /\ UNCHANGED <<apiVars, cliVars, keyVars>>

\* _terraform_destroy and TerraformManager.destroy
terraform_destroy(params, ok) ==
    /\ routed("terraform_destroy", params, None)
    /\ LET project_name == get(params, "project_name", None)
           auto_approve == get(params, "auto_approve", FALSE)
       IN IF falsy(project_name)
          THEN returns(Result(FALSE, "project_name is required"))
          ELSE /\ run_subprocess(destroy_command(auto_approve), project_name, ok)
               /\ UNCHANGED workspace
    /\ UNCHANGED <<apiVars, cliVars, keyVars>>

\* _get_infrastructure_state and TerraformManager.show_state
get_infrastructure_state(params, ok) ==
    /\ routed("get_infrastructure_state", params, None)
    /\ LET project_name == get(params, "project_name", None)
       IN IF falsy(project_name)
          THEN returns(Result(FALSE, "project_name is required"))
          ELSE /\ run_subprocess("terraform show -json", project_name, ok)
               /\ UNCHANGED workspace
    /\ UNCHANGED <<apiVars, cliVars, keyVars>>

get_user_permissions ==
    /\ routed("get_user_permissions", <<>>, None)
    /\ returns(Result(TRUE, None))
    /\ UNCHANGED <<apiVars, cliVars, keyVars>>

\* the calls of aws_mcp.execute_tool
NextTools ==
    \/ \E tool_name \in handlers : \E params \in ParametersOf(tool_name) :
          execute_tool_not_authenticated(tool_name, params)
    \/ \E tool_name \in {TOOLS[i] : i \in 1..Len(TOOLS)} : execute_tool_unknown(tool_name)
    \/ \E params \in ParametersOf("create_rds_instance"), permission \in PermissionOutcomes,
          ok \in BOOLEAN : create_rds_instance(params, permission, ok)
    \/ \E params \in ParametersOf("create_lambda_function"),
          permission \in PermissionOutcomes, ok \in BOOLEAN :
             create_lambda_function(params, permission, ok)
    \/ \E params \in ParametersOf("create_ec2_instance"), permission \in PermissionOutcomes,
          ok \in BOOLEAN : create_ec2_instance(params, permission, ok)
    \/ \E params \in ParametersOf("create_s3_bucket"), permission \in PermissionOutcomes,
          ok \in BOOLEAN : create_s3_bucket(params, permission, ok)
    \/ \E params \in ParametersOf("create_vpc"), permission \in PermissionOutcomes,
          ok \in BOOLEAN : create_vpc(params, permission, ok)
    \/ \E params \in ParametersOf("terraform_plan"), ok \in BOOLEAN :
          terraform_plan(params, ok)
    \/ \E params \in ParametersOf("terraform_apply"), ok \in BOOLEAN :
          terraform_apply(params, ok)
    \/ \E params \in ParametersOf("terraform_destroy"), ok \in BOOLEAN :
          terraform_destroy(params, ok)
    \/ \E params \in ParametersOf("get_infrastructure_state"), ok \in BOOLEAN :
          get_infrastructure_state(params, ok)
    \/ get_user_permissions

----------------------------------------------------------------------------
(* Specifications *)

\* requests arrive at any time
Next ==
    \/ \E p \in RunRequest : run_agent_reject(p)
    \/ \E p \in RunRequest : run_agent(p)
    \/ run_agent_overwrite
    \/ \E r \in Runs : stream(r)

Spec == Init /\ [][Next]_vars

\* the client sends a request only after the terminal event of the run before
SpecSerial == InitWith(MaxSerialToolCalls, 1) /\ [][Next]_vars

\* a handler runs to its end on the event loop, and the thread that iterates
\* a stream goes on as long as the model and the tools return or raise
Fairness ==
    /\ WF_vars(run_agent_overwrite)
    /\ \A r \in Runs : WF_vars(stream(r))

FairSpec == Spec /\ Fairness
FairSpecSerial == SpecSerial /\ Fairness

\* the session of the CLI agent
NextCLI ==
    \/ \E line \in UserInputs : cli_quit(line)
    \/ \E line \in UserInputs : cli_continue(line)
    \/ \E line \in UserInputs : cli_clear(line)
    \/ \E line \in UserInputs : cli_query(line)
    \/ cli_invoke
    \/ cli_execute_tool

SpecCLI == Init /\ [][NextCLI]_vars

\* the calls of get_api_key
NextKeys == call_get_api_key

SpecKeys == InitKeys /\ [][NextKeys]_vars

SpecTools == Init /\ [][NextTools]_vars

----------------------------------------------------------------------------
(* The claims *)

Types(r) == [i \in 1..Len(events[r]) |-> events[r][i].type]
Count(seq, x) == Cardinality({i \in 1..Len(seq) : seq[i] = x})
Last(seq) == seq[Len(seq)]
Front(seq) == SubSeq(seq, 1, Len(seq) - 1)
Started(r) == pc[r] \notin {"idle", "accepted", "start"}
Ended(r) == pc[r] = "done"

BodyTypes == {"TEXT_MESSAGE_CONTENT", "TOOL_RESULT"}

\* ts is a prefix of RUN_STARTED, TEXT_MESSAGE_START, body events,
\* TEXT_MESSAGE_END, RUN_FINISHED
OrderedPrefix(ts) ==
    /\ Len(ts) >= 1 => ts[1] = "RUN_STARTED"
    /\ Len(ts) >= 2 => ts[2] = "TEXT_MESSAGE_START"
    /\ \A i \in 3..Len(ts) :
          \/ ts[i] \in BodyTypes /\ \A j \in 3..(i - 1) : ts[j] \in BodyTypes
          \/ ts[i] = "TEXT_MESSAGE_END" /\ \A j \in 3..(i - 1) : ts[j] \in BodyTypes
          \/ ts[i] = "RUN_FINISHED" /\ i = Len(ts) /\ ts[i - 1] = "TEXT_MESSAGE_END"

\* C1: the events of every run are, in this order, RUN_STARTED,
\* TEXT_MESSAGE_START, any number of TEXT_MESSAGE_CONTENT and TOOL_RESULT,
\* TEXT_MESSAGE_END, RUN_FINISHED, or a prefix of that followed by one
\* RUN_ERROR, which is then the last event; an ended run has the whole
\* sequence or the RUN_ERROR
C1_EventOrder ==
    \A r \in Runs :
       LET ts == Types(r)
       IN /\ \/ OrderedPrefix(ts)
             \/ /\ ts # <<>>
                /\ Last(ts) = "RUN_ERROR"
                /\ OrderedPrefix(Front(ts))
                /\ Count(ts, "RUN_FINISHED") = 0
          /\ Ended(r) => ts # <<>> /\ Last(ts) \in {"RUN_FINISHED", "RUN_ERROR"}

\* a run that streamed a tool result and ended with RUN_FINISHED, and a run
\* that ended with RUN_ERROR
C1_Witness ==
    /\ \E r \in Runs :
          /\ Ended(r)
          /\ Last(Types(r)) = "RUN_FINISHED"
          /\ Count(Types(r), "TOOL_RESULT") > 0
    /\ \E r \in Runs : Ended(r) /\ Last(Types(r)) = "RUN_ERROR"

TerminalTypes == {"RUN_FINISHED", "RUN_ERROR"}

\* C2: a run emits at most one terminal event (RUN_FINISHED or RUN_ERROR),
\* nothing after it, and a run that has ended has emitted exactly one
C2_OneTerminalEvent ==
    \A r \in Runs :
       LET ts == Types(r)
           terminals == {i \in 1..Len(ts) : ts[i] \in TerminalTypes}
       IN /\ Cardinality(terminals) <= 1
          /\ terminals \subseteq {Len(ts)}
          /\ terminals # {} => Ended(r)
          /\ Ended(r) => Cardinality(terminals) = 1

\* a run ended by a model failure after it had streamed a tool result
C2_Witness ==
    \E r \in Runs :
       /\ Ended(r)
       /\ log[r].model_failed
       /\ Count(Types(r), "TOOL_RESULT") > 0
       /\ Last(Types(r)) = "RUN_ERROR"

\* C3: a run whose request was accepted eventually emits RUN_FINISHED or
\* RUN_ERROR and ends, as long as its handler and its stream are scheduled
\* and every model invocation and tool execution returns or raises
C3_Terminates ==
    \A r \in Runs :
       (pc[r] # "idle") ~> (Ended(r) /\ Last(Types(r)) \in TerminalTypes)

\* a run that left the loop at the cap, the last response still asking for
\* tools, and ended with RUN_FINISHED
C3_Witness ==
    \E r \in Runs :
       /\ Ended(r)
       /\ iteration[r] = max_iterations
       /\ response[r].tool_calls # <<>>
       /\ Last(Types(r)) = "RUN_FINISHED"

\* every response of run r so far carried tool calls
AllWithToolCalls(r) ==
    \A inv \in 1..log[r].invocations :
       \E i \in 1..Len(log[r].requested) : log[r].requested[i].id[2] = inv

\* C4: a run invokes the model at most max_iterations = 5 times, and a run
\* that ended with RUN_FINISHED after responses that all carried tool calls
\* invoked it exactly 5 times
C4_IterationBound ==
    \A r \in Runs :
       /\ log[r].invocations <= max_iterations
       /\ (Ended(r) /\ Last(Types(r)) = "RUN_FINISHED" /\ AllWithToolCalls(r))
             => log[r].invocations = max_iterations

\* a run whose five responses all carried tool calls has ended
C4_Witness ==
    \E r \in Runs :
       /\ Ended(r)
       /\ Last(Types(r)) = "RUN_FINISHED"
       /\ AllWithToolCalls(r)
       /\ log[r].invocations = max_iterations

\* the runs that are between the append of a response and the append of
\* the last ToolMessage of its tool calls, on thread t
InBatch(t) ==
    {r \in Runs : pc[r] \in {"execute_tool", "append_tool"} /\ payload[r].threadId = t}

\* C5: with one run in flight at a time, every response with k tool calls
\* in a thread history is followed there by the ToolMessages of its calls,
\* the i-th with the id of the i-th call, all k of them by the time the
\* model is invoked again or the run ends, whatever the tools did
C5_ToolMessagePerCall ==
    \A t \in DOMAIN conversation_store :
       LET history == conversation_store[t]
       IN \A j \in 1..Len(history) :
             history[j].role = "ai" =>
                LET k == Len(history[j].tool_calls)
                IN /\ \A i \in 1..k :
                         j + i <= Len(history) =>
                            /\ history[j + i].role = "tool"
                            /\ history[j + i].tool_call_id = history[j].tool_calls[i].id
                   /\ j + k > Len(history) => InBatch(t) # {}
                   /\ j + k < Len(history) => history[j + k + 1].role # "tool"

\* a response with two tool calls is followed by its two ToolMessages, one
\* of them for a call that raised, and another history holds the ToolMessage
\* of a call made without the aws_terraform profile
C5_Witness ==
    /\ \E t \in DOMAIN conversation_store :
          LET history == conversation_store[t]
          IN \E j \in 1..Len(history) :
                /\ history[j].role = "ai"
                /\ Len(history[j].tool_calls) = 2
                /\ j + 2 <= Len(history)
                /\ \E i \in 1..2 :
                      /\ history[j + i].role = "tool"
                      /\ history[j + i].content[3] = "tool raised"
                /\ InBatch(t) = {}
    /\ \E t \in DOMAIN conversation_store :
          \E j \in 1..Len(conversation_store[t]) :
             /\ conversation_store[t][j].role = "tool"
             /\ conversation_store[t][j].content[3] = "MCP server not found"

\* the tool names of the TOOL_RESULT events of run r, in the order emitted
RECURSIVE ToolResultNames(_)
ToolResultNames(evs) ==
    IF evs = <<>> THEN <<>>
    ELSE IF evs[1].type = "TOOL_RESULT"
         THEN <<evs[1].toolName>> \o ToolResultNames(Tail(evs))
         ELSE ToolResultNames(Tail(evs))

\* the run is between two model invocations, or after the last
BetweenInvocations(r) == pc[r] \in {"invoke", "finish", "done"}

\* C6: once the tool calls of a response are handled, the run has emitted
\* one TOOL_RESULT event per tool call the model has requested, in the order
\* of the calls, also for a call that raised and for a run without the
\* aws_terraform profile
C6_ToolResultEventPerCall ==
    \A r \in Runs :
       BetweenInvocations(r) =>
          ToolResultNames(events[r])
             = [i \in 1..Len(log[r].requested) |-> log[r].requested[i].name]

\* the stream of run r has begun and has not emitted its terminal event
Streaming(r) == Started(r) /\ ~Ended(r)

\* C7: no two runs on the same thread are streaming at the same time: the
\* second request is rejected or waits for the terminal event of the first
C7_OneRunPerThread ==
    \A r1, r2 \in Runs :
       (r1 # r2 /\ Streaming(r1) /\ Streaming(r2))
          => payload[r1].threadId # payload[r2].threadId

NoConsecutiveUserMessages ==
    \A t \in DOMAIN conversation_store :
       \A j \in 1..(Len(conversation_store[t]) - 1) :
          ~(conversation_store[t][j].role = "human"
               /\ conversation_store[t][j + 1].role = "human")

\* the step of the handler that writes history[-1].content writes into a
\* user message, the request text, and changes nothing else of the history
OverwritesUserMessage ==
    (handler # NoHandler /\ handler' = NoHandler) =>
       LET p == payload[handler.run]
           before == conversation_store[p.threadId]
           after == conversation_store'[p.threadId]
       IN /\ Len(after) = Len(before)
          /\ before[Len(before)].role = "human"
          /\ after = [before EXCEPT ![Len(before)].content = p.message]

\* C8: no thread history ever holds two user messages in a row, and a
\* request accepted when the last message is a user message overwrites the
\* content of that user message and leaves the length of the history as it is
C8_OverwriteNotAppend ==
    []NoConsecutiveUserMessages /\ [][OverwritesUserMessage]_vars

\* C9: a run whose first llm.invoke failed has emitted exactly one RUN_ERROR,
\* no RUN_FINISHED and no TEXT_MESSAGE_END, has ended, and no tool call was
\* dispatched in it
C9_FirstInvokeFails ==
    \A r \in Runs :
       (log[r].model_failed /\ log[r].invocations = 1) =>
          /\ Ended(r)
          /\ Count(Types(r), "RUN_ERROR") = 1
          /\ Count(Types(r), "RUN_FINISHED") = 0
          /\ Count(Types(r), "TEXT_MESSAGE_END") = 0
          /\ log[r].executed = <<>>
          /\ log[r].results = <<>>

\* the first llm.invoke of a run has failed
C9_Witness ==
    \E r \in Runs :
       /\ log[r].model_failed
       /\ log[r].invocations = 1
       /\ Last(Types(r)) = "RUN_ERROR"

\* every tool call of run r whose ToolMessage is due and whose outcome was a
\* failure has a ToolMessage with its id and success false in the history
FailedCallsInHistory(r) ==
    \A i \in 1..Len(log[r].results) :
       (~log[r].results[i].success /\ (i < Len(log[r].results) \/ pc[r] # "append_tool"))
          => \E j \in 1..Len(conversation_store[payload[r].threadId]) :
                LET m == conversation_store[payload[r].threadId][j]
                IN /\ m.role = "tool"
                   /\ m.tool_call_id = log[r].results[i].id
                   /\ m.content[2] = "false"

\* after a tool call the run goes on to the next call or to the loop test
ProceedsAfterToolCall ==
    \A r \in Runs :
       (pc[r] = "append_tool" /\ pc'[r] # "append_tool") =>
          \/ pc'[r] = "execute_tool" /\ tc'[r] = tc[r] + 1
          \/ pc'[r] = loop_test(iteration'[r]) /\ iteration'[r] = iteration[r] + 1

\* C10, as stated: a run emits RUN_ERROR only after a failed llm.invoke; a
\* run ended without one ends with RUN_FINISHED, whatever the tools did;
\* every failed tool call leaves a ToolMessage with success false, and the
\* run goes on to the next tool call or to the loop test
C10_Original ==
    /\ [](\A r \in Runs :
            /\ Count(Types(r), "RUN_ERROR") > 0 => log[r].model_failed
            /\ (Ended(r) /\ ~log[r].model_failed) => Last(Types(r)) = "RUN_FINISHED"
            /\ FailedCallsInHistory(r))
    /\ [][ProceedsAfterToolCall]_vars

\* C10, amended: a run emits RUN_ERROR only after a failed get_llm or a
\* failed llm.invoke; a run ended without either ends with RUN_FINISHED,
\* whatever the tools did; every failed tool call leaves a ToolMessage with
\* its id and success false in the history, and the run goes on to the next
\* tool call or to the loop test
C10_ToolFailuresAbsorbed ==
    /\ [](\A r \in Runs :
            /\ Count(Types(r), "RUN_ERROR") > 0
                  => (log[r].init_failed \/ log[r].model_failed)
            /\ (Ended(r) /\ ~log[r].init_failed /\ ~log[r].model_failed)
                  => Last(Types(r)) = "RUN_FINISHED"
            /\ FailedCallsInHistory(r))
    /\ [][ProceedsAfterToolCall]_vars

\* a run ended with RUN_FINISHED after a tool call that raised and a later
\* tool call, both with their ToolMessages in the history
C10_Witness ==
    \E r \in Runs :
       /\ Ended(r)
       /\ Last(Types(r)) = "RUN_FINISHED"
       /\ \E i \in 1..Len(log[r].results) :
             /\ ~log[r].results[i].success
             /\ i < Len(log[r].results)
             /\ log[r].results[i].id \in {log[r].executed[k] : k \in 1..Len(log[r].executed)}
             /\ Count(Types(r), "TOOL_RESULT") < Len(log[r].executed)

\* the tool calls run r was asked for that name a tool without a handler
UnknownCalls(r) ==
    {i \in 1..Len(log[r].requested) : log[r].requested[i].name \notin handlers}

\* the ToolMessage of call i of run r is due: the call was dispatched and
\* the append of its branch is done
Appended(r, i) ==
    /\ i <= Len(log[r].results)
    /\ i < Len(log[r].results) \/ pc[r] # "append_tool"

\* C11: for a tool call that names a tool without a handler no handler is
\* run, its outcome is a failure, its ToolMessage with success false and an
\* error text is appended to the history after the messages of the calls
\* before it, and the run emits RUN_ERROR only if the model backend failed
C11_UnknownTool ==
    \A r \in Runs :
       /\ \A i \in UnknownCalls(r) :
             LET call == log[r].requested[i]
                 history == conversation_store[payload[r].threadId]
             IN /\ \A k \in 1..Len(log[r].handled) : log[r].handled[k] # call.id
                /\ i <= Len(log[r].results) =>
                      /\ log[r].results[i].id = call.id
                      /\ ~log[r].results[i].success
                /\ Appended(r, i) =>
                      \E j \in 2..Len(history) :
                         /\ history[j].role = "tool"
                         /\ history[j].tool_call_id = call.id
                         /\ history[j].content[2] = "false"
                         /\ history[j].content[3] # None
                         /\ history[j - 1].role \in {"ai", "tool"}
       /\ (UnknownCalls(r) # {} /\ Count(Types(r), "RUN_ERROR") > 0)
             => (log[r].init_failed \/ log[r].model_failed)
       /\ (UnknownCalls(r) # {} /\ Ended(r) /\ ~log[r].model_failed)
             => Last(Types(r)) = "RUN_FINISHED"

\* a run that passed a call for a tool without a handler to
\* aws_mcp.execute_tool, got "Unknown tool", and ended with RUN_FINISHED
C11_Witness ==
    \E r \in Runs :
       /\ Ended(r)
       /\ Last(Types(r)) = "RUN_FINISHED"
       /\ \E i \in UnknownCalls(r) :
             /\ \E k \in 1..Len(log[r].executed) :
                   log[r].executed[k] = log[r].requested[i].id
             /\ \E j \in 1..Len(conversation_store[payload[r].threadId]) :
                   LET m == conversation_store[payload[r].threadId][j]
                   IN /\ m.role = "tool"
                      /\ m.tool_call_id = log[r].requested[i].id
                      /\ m.content[3] = "Unknown tool"

\* llm.invoke of run r fails in this step
InvokeFails(r) == ~log[r].model_failed /\ log'[r].model_failed

\* no step removes or reorders messages: every history keeps its messages,
\* but for the content of the last one, which the handler may overwrite
HistoryKept ==
    \A t \in DOMAIN conversation_store :
       /\ t \in DOMAIN conversation_store'
       /\ Len(conversation_store'[t]) >= Len(conversation_store[t])
       /\ \A j \in 1..Len(conversation_store[t]) :
             \/ conversation_store'[t][j] = conversation_store[t][j]
             \/ /\ j = Len(conversation_store[t])
                /\ handler # NoHandler
                /\ conversation_store'[t][j]
                      = [conversation_store[t][j] EXCEPT
                            !.content = payload[handler.run].message]

\* C12: the step in which llm.invoke fails leaves every thread history as it
\* was, nothing removed and nothing appended, and ends the run with
\* RUN_ERROR; and no step of any run or handler removes or reorders the
\* messages of a history
C12_NoRollback ==
    /\ [][\A r \in Runs :
             InvokeFails(r) =>
                /\ conversation_store' = conversation_store
                /\ pc'[r] = "done"
                /\ Last(events'[r]).type = "RUN_ERROR"]_vars
    /\ [][HistoryKept]_vars

\* llm.invoke has failed at the second invocation or later, after the run
\* had appended a response and a ToolMessage, which are in the history
C12_Witness ==
    \E r \in Runs :
       /\ log[r].model_failed
       /\ log[r].invocations >= 2
       /\ Ended(r)
       /\ \E j \in 1..Len(conversation_store[payload[r].threadId]) :
             LET m == conversation_store[payload[r].threadId][j]
             IN m.role = "tool" /\ m.tool_call_id[1] = r

\* the deltas of the TEXT_MESSAGE_CONTENT events among evs, in order
RECURSIVE ContentDeltas(_)
ContentDeltas(evs) ==
    IF evs = <<>> THEN <<>>
    ELSE IF evs[1].type = "TEXT_MESSAGE_CONTENT"
         THEN <<evs[1].delta>> \o ContentDeltas(Tail(evs))
         ELSE ContentDeltas(Tail(evs))

RECURSIVE Concat(_)
Concat(seqs) == IF seqs = <<>> THEN <<>> ELSE Head(seqs) \o Concat(Tail(seqs))

\* the deltas of the final text of run r: those after the note, if any
FinalDeltas(r) ==
    LET deltas == ContentDeltas(events[r])
        note == Len(perplexity_note(payload[r]))
    IN SubSeq(deltas, note + 1, Len(deltas))

EmittedFinalText(r) == Concat(FinalDeltas(r))

Finished(r) == Ended(r) /\ Last(Types(r)) = "RUN_FINISHED"

\* the response before the last one of run r carried tool calls
PrecedingHadToolCalls(r) ==
    \E i \in 1..Len(log[r].requested) :
       log[r].requested[i].id[2] = log[r].invocations - 1

\* C13: a run that ended on a response without tool calls and with empty
\* text has emitted "I have initiated ..." as its final text if the response
\* before had tool calls, and "No response generated." if not
C13_FallbackText ==
    \A r \in Runs :
       (Finished(r) /\ response[r].tool_calls = <<>> /\ strip(response[r].content) = <<>>)
          => EmittedFinalText(r) = IF PrecedingHadToolCalls(r)
                                   THEN FallbackInitiated
                                   ELSE FallbackNoResponse

\* the run left the loop at the cap, its last response asking for tools
AtCap(r) ==
    /\ pc[r] \in {"finish", "done"}
    /\ iteration[r] = max_iterations
    /\ response[r].tool_calls # <<>>

\* a run that left the loop at the cap ends with TEXT_MESSAGE_END and
\* RUN_FINISHED and without RUN_ERROR
CapEndsCompleted(r) ==
    (AtCap(r) /\ Ended(r)) =>
       /\ Finished(r)
       /\ Types(r)[Len(Types(r)) - 1] = "TEXT_MESSAGE_END"
       /\ Count(Types(r), "RUN_ERROR") = 0

\* C14, as stated: a run that left the loop at the cap ends completed, and
\* its final text is the content of its last response, empty when that
\* response carried only tool calls
C14_Original ==
    \A r \in Runs :
       /\ CapEndsCompleted(r)
       /\ (AtCap(r) /\ Ended(r)) => EmittedFinalText(r) = response[r].content

\* C14, amended: a run that left the loop at the cap ends completed, and its
\* final text is the content of its last response, or "I have initiated ..."
\* when that content is empty or blank
C14_CapFinalText ==
    \A r \in Runs :
       /\ CapEndsCompleted(r)
       /\ (AtCap(r) /\ Ended(r)) =>
             EmittedFinalText(r) = IF strip(response[r].content) # <<>>
                                   THEN response[r].content
                                   ELSE FallbackInitiated

\* a run has ended at the cap on a response with text and tool calls, and
\* that text is its final text
C14_Witness ==
    \E r \in Runs :
       /\ AtCap(r)
       /\ Finished(r)
       /\ log[r].invocations = max_iterations
       /\ response[r].content = TextDone
       /\ EmittedFinalText(r) = TextDone

\* every delta of ds has at most chunk_size characters, and every one but
\* the last has exactly chunk_size
ChunkSizes(ds) ==
    /\ \A i \in 1..Len(ds) : Len(ds[i]) <= chunk_size
    /\ \A i \in 1..(Len(ds) - 1) : Len(ds[i]) = chunk_size

\* C15, as stated: in a run that ended with RUN_FINISHED the deltas of all
\* its TEXT_MESSAGE_CONTENT events, concatenated in order, are the final
\* response text, every delta has at most 60 characters and every one but
\* the last exactly 60
C15_Original ==
    \A r \in Runs :
       Finished(r) =>
          /\ Concat(ContentDeltas(events[r])) = final_response_text(response[r])
          /\ ChunkSizes(ContentDeltas(events[r]))

\* C15, amended: in a run that ended with RUN_FINISHED the deltas of its
\* TEXT_MESSAGE_CONTENT events are, for provider perplexity with a tool
\* profile, first the note as one delta, and then, as for every other run,
\* deltas that concatenated in order are the final response text, each of
\* at most 60 characters and each but the last of exactly 60
C15_ChunkRoundTrip ==
    \A r \in Runs :
       Finished(r) =>
          LET deltas == ContentDeltas(events[r])
              noted == payload[r].provider = "perplexity" /\ payload[r].mcpServer # "none"
              final == IF noted THEN Tail(deltas) ELSE deltas
          IN /\ noted => deltas # <<>> /\ Head(deltas) = PerplexityNote
             /\ Concat(final) = final_response_text(response[r])
             /\ final # <<>>
             /\ ChunkSizes(final)

\* a perplexity run with a tool profile has ended with a final text of two
\* chunks after the note
C15_Witness ==
    \E r \in Runs :
       /\ Finished(r)
       /\ payload[r].provider = "perplexity"
       /\ Len(ContentDeltas(events[r])) = 3
       /\ Len(ContentDeltas(events[r])[3]) < chunk_size

\* the run made one model invocation, which returned a response without
\* tool calls, and has ended
OneShot(r) ==
    /\ Ended(r)
    /\ log[r].invocations = 1
    /\ ~log[r].model_failed
    /\ response[r].tool_calls = <<>>

\* RUN_STARTED, TEXT_MESSAGE_START, n TEXT_MESSAGE_CONTENT, TEXT_MESSAGE_END,
\* RUN_FINISHED
OneShotTypes(n) ==
    <<"RUN_STARTED", "TEXT_MESSAGE_START">>
    \o [i \in 1..n |-> "TEXT_MESSAGE_CONTENT"]
    \o <<"TEXT_MESSAGE_END", "RUN_FINISHED">>

\* C16, as stated: a run whose first response has no tool calls emits
\* RUN_STARTED, TEXT_MESSAGE_START, one or more TEXT_MESSAGE_CONTENT (exactly
\* one when the response text is empty), TEXT_MESSAGE_END, RUN_FINISHED, and
\* its request appends exactly a user and an assistant message
C16_Original ==
    \A r \in Runs :
       OneShot(r) =>
          LET n == Count(Types(r), "TEXT_MESSAGE_CONTENT")
          IN /\ n >= 1
             /\ Types(r) = OneShotTypes(n)
             /\ response[r].content = <<>> => n = 1
             /\ log[r].appended = <<"human", "ai">>

\* C16, amended: such a run emits RUN_STARTED, TEXT_MESSAGE_START, one or
\* more TEXT_MESSAGE_CONTENT, TEXT_MESSAGE_END, RUN_FINISHED; when the
\* response text is empty the chunks are the fallback text alone, after the
\* note of a perplexity run with a tool profile; the request appends a user
\* and an assistant message, or the assistant message alone when it was
\* accepted with a user message last in the history
C16_OneShotRun ==
    \A r \in Runs :
       OneShot(r) =>
          LET n == Count(Types(r), "TEXT_MESSAGE_CONTENT")
          IN /\ n >= 1
             /\ Types(r) = OneShotTypes(n)
             /\ response[r].content = <<>> => FinalDeltas(r) = <<FallbackNoResponse>>
             /\ n = Len(FinalDeltas(r)) + Len(perplexity_note(payload[r]))
             /\ log[r].appended \in {<<"human", "ai">>, <<"ai">>}
             /\ log[r].appended = <<"human", "ai">>
                   => \E j \in 2..Len(conversation_store[payload[r].threadId]) :
                         LET history == conversation_store[payload[r].threadId]
                         IN /\ history[j].role = "ai"
                            /\ history[j].tool_calls = <<>>
                            /\ \E i \in 1..(j - 1) : history[i].role = "human"

\* two runs of one invocation each have ended: the request of the first
\* appended two messages and its response was empty, the request of the
\* second appended the assistant message only
C16_Witness ==
    \E r1, r2 \in Runs :
       /\ OneShot(r1) /\ OneShot(r2)
       /\ log[r1].appended = <<"human", "ai">>
       /\ log[r2].appended = <<"ai">>
       /\ \E r \in {r1, r2} : response[r].content = <<>>

\* run r is the only run of its thread, which was new when its request
\* came, the aws_terraform profile is there, the model asked for one tool
\* call, then answered "Done.", and the run has ended
OneCallThenDone(r) ==
    /\ Ended(r)
    /\ \A r2 \in Runs \ {r} : payload[r2].threadId # payload[r].threadId
    /\ payload[r].mcpServer = "aws_terraform"
    /\ MCP_AVAILABLE
    /\ log[r].invocations = 2
    /\ ~log[r].model_failed
    /\ Len(log[r].requested) = 1
    /\ response[r] = AIMessage(TextDone, <<>>)

\* the events and the history of the scenario
ScenarioOutcome(r) ==
    LET history == conversation_store[payload[r].threadId]
    IN /\ Types(r) = <<"RUN_STARTED", "TEXT_MESSAGE_START", "TOOL_RESULT",
                       "TEXT_MESSAGE_CONTENT", "TEXT_MESSAGE_END", "RUN_FINISHED">>
       /\ events[r][3].toolName = log[r].requested[1].name
       /\ events[r][4].delta = TextDone
       /\ [j \in 1..Len(history) |-> history[j].role]
             = <<"system", "human", "ai", "tool", "ai">>
       /\ history[2].content = payload[r].message
       /\ history[3].tool_calls = log[r].requested
       /\ history[4].tool_call_id = log[r].requested[1].id
       /\ history[5] = AIMessage(TextDone, <<>>)

\* C17: on a new thread with the tool profile, a run whose model asks for
\* one tool call and then answers "Done." emits RUN_STARTED,
\* TEXT_MESSAGE_START, TOOL_RESULT, TEXT_MESSAGE_CONTENT("Done."),
\* TEXT_MESSAGE_END, RUN_FINISHED, and leaves the history system, user,
\* assistant with the tool call, tool result, assistant "Done."
C17_Scenario ==
    \A r \in Runs : OneCallThenDone(r) => ScenarioOutcome(r)

\* the scenario with a tool that returns, for a provider without the note:
\* the events and the history are the expected ones
C17_Witness ==
    \E r \in Runs :
       /\ OneCallThenDone(r)
       /\ ScenarioOutcome(r)
       /\ log[r].results[1].success

----------------------------------------------------------------------------
\* C18: a request whose message is empty or whitespace-only, or whose
\* provider is not supported, is rejected with status 400 before any stream is
\* opened and any event emitted: no run is ever accepted for such a request,
\* and the step that answers a request without accepting it leaves the
\* conversation store, the runs, their events and their model and tool
\* invocations as they were.

Invalid(p) == strip(p.message) = <<>> \/ p.provider \notin SUPPORTED_LLMS

\* a request is answered and no run is accepted for it
Rejects == nreq' = nreq + 1 /\ nruns' = nruns

NoInvalidRun == \A r \in Runs : pc[r] # "idle" => ~Invalid(payload[r])

C18_RejectedEarly ==
    /\ []NoInvalidRun
    /\ [][Rejects =>
            /\ http_status' = 400
            /\ conversation_store' = conversation_store
            /\ llm_cache' = llm_cache
            /\ pc' = pc
            /\ events' = events
            /\ log' = log]_vars

\* a request was rejected while a thread exists and a stream is open
C18_Witness ==
    /\ http_status = 400
    /\ nreq = 2
    /\ nruns = 1
    /\ "t1" \in DOMAIN conversation_store
    /\ \E r \in Runs : pc[r] \notin {"idle", "done"}

----------------------------------------------------------------------------
\* C19: a request naming an unknown tool profile (an mcpServer that is
\* neither "none" nor a known profile) is rejected before a run starts: no
\* run is accepted for it, no event is emitted for it and nothing is appended
\* to a history for it.

\* "none" and the one profile get_llm and the stream know
KnownProfiles == {"none", "aws_terraform"}

UnknownProfile(r) == pc[r] # "idle" /\ payload[r].mcpServer \notin KnownProfiles

C19_UnknownProfileRejected ==
    \A r \in Runs :
       payload[r].mcpServer \notin KnownProfiles \cup {None} =>
          /\ pc[r] = "idle"
          /\ events[r] = <<>>
          /\ log[r].appended = <<>>

\* what the code does instead: the run completes, and a tool call of its
\* model is answered with a ToolMessage and never executed
C19_AcceptedInstead ==
    \E r \in Runs :
       /\ UnknownProfile(r)
       /\ Finished(r)
       /\ log[r].requested # <<>>
       /\ log[r].executed = <<>>

----------------------------------------------------------------------------
\* C20: the system prompt is seeded exactly once per thread: in every
\* reachable state every non-empty history of the store has the system
\* message at index 0 and no system message at any other index, whatever
\* runs, errors and overwrites the thread has seen.

SystemFirstOnly(history) ==
    /\ history[1] = SystemMessage(SYSTEM_PROMPT)
    /\ \A i \in 2..Len(history) : history[i].role # "system"

C20_SeededOnce ==
    \A t \in DOMAIN conversation_store :
       conversation_store[t] # <<>> => SystemFirstOnly(conversation_store[t])

\* two runs on one thread, the first ended with RUN_ERROR, the second wrote
\* its message over the user message the first left last
C20_Witness ==
    /\ nruns = 2
    /\ payload[1].threadId = payload[2].threadId
    /\ pc[1] = "done"
    /\ Last(events[1]).type = "RUN_ERROR"
    /\ pc[2] \notin {"idle", "accepted"}
    /\ log[2].appended = <<>>
    /\ SystemFirstOnly(conversation_store[payload[1].threadId])

----------------------------------------------------------------------------
\* C21: a thread's history is append-only in insertion order: no step
\* deletes a thread, or removes, reorders or deduplicates a message; a step
\* either appends at the end or replaces the content of a trailing user
\* message.

IsPrefix(s, t) == Len(s) <= Len(t) /\ SubSeq(t, 1, Len(s)) = s

AppendsOrOverwritesUser(before, after) ==
    \/ IsPrefix(before, after)
    \/ /\ Len(after) = Len(before)
       /\ before[Len(before)].role = "human"
       /\ after = [before EXCEPT ![Len(before)].content = after[Len(after)].content]

C21_AppendOnly ==
    [][\A t \in DOMAIN conversation_store :
          /\ t \in DOMAIN conversation_store'
          /\ AppendsOrOverwritesUser(conversation_store[t], conversation_store'[t])]_vars

\* the part of C21 that holds with overlapping runs: no message is removed or
\* moved and no thread deleted; a step changes at most the content of the last
\* message
C21_NoRemoval ==
    [][\A t \in DOMAIN conversation_store :
          /\ t \in DOMAIN conversation_store'
          /\ Len(conversation_store'[t]) >= Len(conversation_store[t])
          /\ \A i \in 1..Len(conversation_store[t]) :
                \/ conversation_store'[t][i] = conversation_store[t][i]
                \/ /\ i = Len(conversation_store[t])
                   /\ i = Len(conversation_store'[t])
                   /\ conversation_store'[t][i] =
                         [conversation_store[t][i] EXCEPT
                             !.content = conversation_store'[t][i].content]]_vars

----------------------------------------------------------------------------
\* C22: at every model invocation, in the history passed to the model every
\* tool message answers a tool call of an earlier assistant message, every
\* tool call of every assistant message is answered exactly once, and the
\* tool messages of an assistant message follow it directly, in call order.

\* the tool calls of the assistant message at i are answered by the messages
\* right after it, in order
AnsweredInOrder(history, i) ==
    LET calls == history[i].tool_calls
    IN /\ i + Len(calls) <= Len(history)
       /\ \A j \in 1..Len(calls) :
             /\ history[i + j].role = "tool"
             /\ history[i + j].tool_call_id = calls[j].id
             /\ Cardinality({m \in 1..Len(history) :
                                /\ history[m].role = "tool"
                                /\ history[m].tool_call_id = calls[j].id}) = 1

\* the tool message at m answers a call of the assistant message it follows
AnswersCall(history, m) ==
    \E i \in 1..(m - 1) :
       /\ history[i].role = "ai"
       /\ m - i <= Len(history[i].tool_calls)
       /\ history[m].tool_call_id = history[i].tool_calls[m - i].id
       /\ \A n \in (i + 1)..(m - 1) : history[n].role = "tool"

WellFormedCalls(history) ==
    \A i \in 1..Len(history) :
       /\ history[i].role = "ai" => AnsweredInOrder(history, i)
       /\ history[i].role = "tool" => AnswersCall(history, i)

C22_CallsAnswered ==
    \A r \in Runs :
       pc[r] = "invoke" => WellFormedCalls(conversation_store[payload[r].threadId])

\* a model invocation on a history that holds an assistant message with tool
\* calls and their tool messages
C22_Witness ==
    \E r \in Runs :
       /\ pc[r] = "invoke"
       /\ LET history == conversation_store[payload[r].threadId]
          IN /\ WellFormedCalls(history)
             /\ \E i \in 1..Len(history) : history[i].tool_calls # <<>>

----------------------------------------------------------------------------
\* C23: the tool calls of a response are dispatched one after the other in
\* the order the model emitted them, and their results are streamed: when
\* tool call i+1 starts executing, the TOOL_RESULT events of the calls before
\* it have been emitted, and the model is not invoked again until every call
\* of the batch has been executed and its ToolMessage appended.

\* the tools of run r are executed
Executes(r) == pc[r] # "idle" /\ payload[r].mcpServer = "aws_terraform" /\ MCP_AVAILABLE

Ids(calls) == [i \in 1..Len(calls) |-> calls[i].id]
Names(calls) == [i \in 1..Len(calls) |-> calls[i].name]

C23_SequentialStreaming ==
    \A r \in Runs :
       Executes(r) =>
          LET requested == log[r].requested
              executed == log[r].executed
          IN /\ IsPrefix(executed, Ids(requested))
             /\ pc[r] = "execute_tool" =>
                   /\ response[r].tool_calls[tc[r]].id = requested[Len(executed) + 1].id
                   /\ ToolResultNames(events[r])
                         = Names(SubSeq(requested, 1, Len(executed)))
             /\ pc[r] = "invoke" =>
                   /\ executed = Ids(requested)
                   /\ Count(log[r].appended, "tool") = Len(requested)

\* the second tool call of a response is about to execute and the result of
\* the first has been streamed
C23_Witness ==
    \E r \in Runs :
       /\ Executes(r)
       /\ pc[r] = "execute_tool"
       /\ tc[r] = 2
       /\ ToolResultNames(events[r]) = Names(SubSeq(log[r].requested, 1, Len(log[r].executed)))
       /\ Last(events[r]).type = "TOOL_RESULT"

----------------------------------------------------------------------------
\* C24: the model-instance cache is append-only under concurrent runs: for
\* each key the model instance is initialized at most once, and a key that
\* has a cached value keeps that value.

\* every instance built is the one cached under its key
OneInitPerKey == ninits = Cardinality(DOMAIN llm_cache)

CacheKept ==
    \A k \in DOMAIN llm_cache :
       k \in DOMAIN llm_cache' /\ llm_cache'[k] = llm_cache[k]

C24_CacheAppendOnly == []OneInitPerKey /\ [][CacheKept]_vars

\* two runs with the same cache key, the second served from the cache
C24_Witness ==
    /\ nruns = 2
    /\ cache_key(payload[1]) = cache_key(payload[2])
    /\ ninits = 1
    /\ llm[1] = 1
    /\ llm[2] = 1

----------------------------------------------------------------------------
\* C25: runs on different threads are isolated: a step of the handler or of
\* the stream of a run creates or changes the history of that run's thread
\* only, whatever runs overlap, and every thread other than that of the run
\* keeps its history.

HistoryOf(store, t) == IF t \in DOMAIN store THEN store[t] ELSE <<>>

\* the step is one of run r: of its handler or of its stream
StepOf(r) == pc'[r] # pc[r]

C25_ThreadIsolation ==
    [][/\ \A r \in Runs :
             StepOf(r) =>
                \A t \in DOMAIN conversation_store \cup DOMAIN conversation_store' :
                   t # payload'[r].threadId =>
                      HistoryOf(conversation_store', t) = HistoryOf(conversation_store, t)
       /\ (\A r \in Runs : ~StepOf(r)) => conversation_store' = conversation_store]_vars

\* two runs on different threads stream at the same time and both have
\* appended a response to the history of their thread
C25_Witness ==
    /\ nruns = 2
    /\ payload[1].threadId # payload[2].threadId
    /\ \A r \in Runs :
          /\ Streaming(r)
          /\ "ai" \in {log[r].appended[i] : i \in 1..Len(log[r].appended)}
          /\ Len(conversation_store[payload[r].threadId]) = 1 + Len(log[r].appended)

----------------------------------------------------------------------------
\* C26: in the CLI agent "clear" is the only operation that removes messages:
\* every other step leaves the messages of the history in place and at most
\* appends, and after "clear" the history is exactly the system prompt,
\* whatever it was before.

Clears == cli_log'.cleared # cli_log.cleared

C26_ClearOnly ==
    [][/\ Clears => conversation_history' = <<SystemMessage(SYSTEM_PROMPT)>>
       /\ ~Clears => IsPrefix(conversation_history, conversation_history')]_vars

\* "clear" was obeyed after a query had been answered, and the history is the
\* system prompt
C26_Witness ==
    /\ cli_log.cleared > 0
    /\ cli_printed # <<>>
    /\ conversation_history = <<SystemMessage(SYSTEM_PROMPT)>>

----------------------------------------------------------------------------
\* C27: the CLI agent appends or overwrites as the server does: a query read
\* when the last message of the history is a user message overwrites the
\* content of that message and appends nothing, and the history never holds
\* two user messages in a row.

CliNoConsecutiveUserMessages ==
    \A j \in 1..(Len(conversation_history) - 1) :
       ~(conversation_history[j].role = "human"
            /\ conversation_history[j + 1].role = "human")

\* the step reads a query, not a command
ReadsQuery == cli_pc = "input" /\ cli_pc' = "invoke"

CliOverwritesUserMessage ==
    (ReadsQuery /\ Last(conversation_history).role = "human") =>
       /\ Len(conversation_history') = Len(conversation_history)
       /\ Front(conversation_history') = Front(conversation_history)
       /\ Last(conversation_history').role = "human"

C27_CliOverwrite ==
    []CliNoConsecutiveUserMessages /\ [][CliOverwritesUserMessage]_vars

\* what the code does instead: after a query whose model invocation failed,
\* the next query is appended behind the user message the first left
C27_AppendedInstead ==
    /\ cli_log.faults > 0
    /\ ~CliNoConsecutiveUserMessages
    /\ Last(conversation_history).role = "human"
    /\ cli_pc = "invoke"

----------------------------------------------------------------------------
\* C28: when get_api_key is called with a preferred_source, only that source
\* is consulted: no other source is tried, and a key that is returned is the
\* key of that source.

KeyCalled == key_result # NoKeyResult

\* the source a preferred_source names; "env" and "dotenv" both name the
\* process environment, into which the .env file is loaded
SourceNamed(preferred_source) ==
    IF source_lower(preferred_source) = "dotenv" THEN "env"
    ELSE source_lower(preferred_source)

\* the keys a source can give
KeysOf(source) ==
    CASE source = "local" -> {credentials.keyring}
      [] source = "azure" -> {credentials.azure}
      [] source = "aws" -> {credentials.aws}
      [] source = "env" -> {credentials.environ, credentials.dotenv}
      [] OTHER -> {}

C28_OnlyPreferredSource ==
    (KeyCalled /\ key_call.preferred_source # None) =>
       /\ \A i \in 1..Len(key_result.consulted) :
             key_result.consulted[i] = SourceNamed(key_call.preferred_source)
       /\ key_result.api_key # None =>
             key_result.api_key \in KeysOf(SourceNamed(key_call.preferred_source))

\* the keyring is preferred and holds a key, the environment holds another:
\* the key of the keyring is returned and nothing else was consulted
C28_Witness ==
    /\ KeyCalled
    /\ key_call.preferred_source = "local"
    /\ credentials.environ = "env-key"
    /\ key_result = Returned("keyring-key", <<"local">>)

----------------------------------------------------------------------------
\* C29: without a preferred_source get_api_key returns the key of the first
\* source that holds one in the order local keyring, Azure KeyVault, AWS
\* Secrets Manager, .env file, environment variable; a key in the keyring is
\* preferred over one in the environment.

\* the key each source holds for the provider, in the documented order
DocumentedOrder(provider, creds) ==
    <<creds.keyring, creds.azure, creds.aws,
      IF env_var(provider) # None THEN creds.dotenv ELSE None,
      IF env_var(provider) # None THEN creds.environ ELSE None>>

FirstKey(keys) ==
    IF \E i \in 1..Len(keys) : Holds(keys[i])
    THEN keys[CHOOSE i \in 1..Len(keys) :
                 Holds(keys[i]) /\ \A j \in 1..(i - 1) : ~Holds(keys[j])]
    ELSE None

C29_PriorityOrder ==
    (KeyCalled /\ key_call.preferred_source = None
        /\ key_call.provider \in SUPPORTED_LLMS) =>
       /\ key_result.outcome = "return"
       /\ key_result.api_key = FirstKey(DocumentedOrder(key_call.provider, credentials))

\* no key in the environment, none in the keyring, a failing vault: the key
\* of the secrets manager is returned
C29_Witness ==
    /\ KeyCalled
    /\ key_call = [provider |-> "openai", preferred_source |-> None]
    /\ credentials = [keyring |-> None, azure |-> Raises, aws |-> "aws-key",
                      environ |-> None, dotenv |-> None]
    /\ key_result = Returned("aws-key", <<"env", "local", "azure", "aws">>)

----------------------------------------------------------------------------
\* C30: the first model invocation of every run is passed a history whose
\* last message is a user message with the text of that run's own request,
\* also when another request for the thread was accepted after this one and
\* before the invocation.

AtFirstInvocation(r) == pc[r] = "invoke" /\ log[r].invocations = 0

C30_OwnRequestLast ==
    \A r \in Runs :
       AtFirstInvocation(r) =>
          LET history == conversation_store[payload[r].threadId]
          IN /\ Last(history).role = "human"
             /\ Last(history).content = payload[r].message

\* a run is at its first invocation on a thread where an earlier run left
\* its user message unanswered: the message now carries this run's text
C30_Witness ==
    \E r \in Runs :
       /\ AtFirstInvocation(r)
       /\ log[r].appended = <<>>
       /\ \E r2 \in Runs \ {r} :
             /\ Ended(r2)
             /\ payload[r2].threadId = payload[r].threadId
             /\ payload[r2].message # payload[r].message
       /\ Last(conversation_store[payload[r].threadId]) = HumanMessage(payload[r].message)

----------------------------------------------------------------------------
\* C31: the overwrite branch of the handler changes the content of a user
\* message only: whatever a stream of another run on the thread appends in
\* the meantime, no assistant or tool message has its content replaced.

OnlyUserContentChanges ==
    \A t \in DOMAIN conversation_store :
       \A i \in 1..Len(conversation_store[t]) :
          conversation_store'[t][i] # conversation_store[t][i] =>
             conversation_store[t][i].role = "human"

C31_OverwriteUserOnly == [][OnlyUserContentChanges]_vars

\* the handler of the second run wrote its text over the user message the
\* first run left last, while the first run is streaming
C31_Witness ==
    /\ nruns = 2
    /\ payload[1].threadId = payload[2].threadId
    /\ payload[1].message # payload[2].message
    /\ Streaming(1)
    /\ pc[2] = "start"
    /\ log[2].appended = <<>>
    /\ Last(conversation_store[payload[2].threadId]) = HumanMessage(payload[2].message)

\* the history of the thread of run r
ThreadHistory(r) == conversation_store[payload[r].threadId]

\* the history of run r ends with its last response followed by one
\* ToolMessage per tool call of that response, in call order
EndsWithAnsweredBatch(r) ==
    LET h == ThreadHistory(r)
        calls == response[r].tool_calls
        k == Len(calls)
    IN /\ Len(h) > k
       /\ h[Len(h) - k] = response[r]
       /\ \A i \in 1..k :
             /\ h[Len(h) - k + i].role = "tool"
             /\ h[Len(h) - k + i].tool_call_id = calls[i].id
       /\ Len(log[r].results) >= k
       /\ \A i \in 1..k :
             log[r].results[Len(log[r].results) - k + i].id = calls[i].id

\* C32: a run that has left the loop at the cap has dispatched every tool
\* call of its last response and appended their ToolMessages, has invoked
\* the model max_iterations times and no more, and its thread history ends
\* with a ToolMessage; a run that has left the loop otherwise finds an
\* assistant message without tool calls last in its thread history
C32_HistoryEnd ==
    \A r \in Runs :
       /\ AtCap(r) => log[r].invocations = max_iterations
       /\ pc[r] = "finish" =>
             IF AtCap(r)
             THEN /\ EndsWithAnsweredBatch(r)
                  /\ Last(ThreadHistory(r)).role = "tool"
             ELSE /\ Last(ThreadHistory(r)).role = "ai"
                  /\ Last(ThreadHistory(r)).tool_calls = <<>>

\* a run has left the loop at the cap with the ToolMessages of its last
\* response at the end of the history
C32_Witness ==
    \E r \in Runs :
       /\ pc[r] = "finish"
       /\ AtCap(r)
       /\ EndsWithAnsweredBatch(r)

\* a run has left the loop on a response without tool calls, which is the
\* last message of its thread
C32_WitnessAnswer ==
    \E r \in Runs :
       /\ pc[r] = "finish"
       /\ ~AtCap(r)
       /\ Last(ThreadHistory(r)) = response[r]
       /\ \E q \in Runs : q # r /\ Streaming(q)

----------------------------------------------------------------------------
\* the run has a request whose tool profile is not 'aws_terraform'
OtherProfile(r) == pc[r] # "idle" /\ payload[r].mcpServer # "aws_terraform"

\* the run is not inside the dispatch of a response's tool calls and was not
\* ended by an exception
BatchesDone(r) ==
    /\ pc[r] \notin {"idle", "append_response", "execute_tool", "append_tool"}
    /\ ~log[r].model_failed

\* no handler ran for a run of another profile, and every call dispatched
\* for it got a result with success = false; every call its model requested
\* is dispatched, in order, by the end of its batch
OtherProfileNeverExecutes ==
    \A r \in Runs :
       /\ log[r].executed # <<>> => payload[r].mcpServer = "aws_terraform"
       /\ OtherProfile(r) =>
             /\ log[r].executed = <<>>
             /\ log[r].handled = <<>>
             /\ \A i \in 1..Len(log[r].results) : ~log[r].results[i].success
             /\ IsPrefix([i \in 1..Len(log[r].results) |-> log[r].results[i].id],
                         Ids(log[r].requested))
             /\ BatchesDone(r) => Len(log[r].results) = Len(log[r].requested)
             /\ \A i \in 1..Len(events[r]) : events[r][i].type # "TOOL_RESULT"

\* a step that appends to the thread of a run of another profile, inside
\* that run's dispatch, appends the ToolMessage of the call in hand with
\* success = false and the 'not found' error
OtherProfileAppendsFailure ==
    \A r \in Runs :
       (OtherProfile(r) /\ pc[r] = "append_tool" /\ pc'[r] # "append_tool") =>
          LET t == payload[r].threadId
          IN /\ Len(conversation_store'[t]) = Len(conversation_store[t]) + 1
             /\ Last(conversation_store'[t]) =
                   ToolMessage(json_dumps([success |-> FALSE,
                                           error |-> "MCP server not found"]),
                               response[r].tool_calls[tc[r]].id)

\* C33: the tool executor is invoked only in runs whose tool profile is
\* 'aws_terraform'; in a run with any other profile every tool call the
\* model requests gets a ToolMessage with success = false appended, and no
\* handler runs
C33_OnlyAwsTerraformExecutes ==
    /\ []OtherProfileNeverExecutes
    /\ [][OtherProfileAppendsFailure]_vars

\* a run with profile 'none' has ended after its model requested a tool
\* call, which was answered with a failure and not executed
C33_Witness ==
    \E r \in Runs :
       /\ MCP_AVAILABLE
       /\ payload[r].mcpServer = "none"
       /\ Finished(r)
       /\ log[r].requested # <<>>
       /\ Len(log[r].results) = Len(log[r].requested)
       /\ ~log[r].results[1].success
       /\ log[r].executed = <<>>
       /\ \E i \in 1..Len(conversation_store[payload[r].threadId]) :
             conversation_store[payload[r].threadId][i].role = "tool"

----------------------------------------------------------------------------
(* The server loop and the CLI loop on the same inputs: a server run with
   the aws_terraform profile runs to its end, then the CLI loop is given the
   user message of that run and, at each llm.invoke, what the model did for
   the server run at the same invocation: the exception, or a response with
   the same tool calls. The handlers are free in both. *)

\* the requests of a profile whose tools the server run executes, as the CLI
\* loop does whenever the MCP server was imported
LoopRequests == {p \in RunRequest : p.mcpServer = "aws_terraform"}

\* the server run the CLI loop is compared with
srv == 1

\* the server run has ended after its model was initialized, as the CLI
\* initializes its model before its loop
ServerRunEnded == pc[srv] = "done" /\ ~log[srv].init_failed

\* the tool calls of the response of invocation inv, of the calls requested
CallsOf(requested, inv) == SelectSeq(requested, LAMBDA c : c.id[2] = inv)

\* the model has given the CLI loop, so far, what it gave the server run
SameModelInputs ==
    /\ cli_log.queries = 1
    /\ conversation_history[2] = conversation_store[payload[srv].threadId][2]
    /\ cli_log.invocations <= log[srv].invocations
    /\ \A inv \in 1..cli_log.invocations :
          CallsOf(cli_log.requested, inv) = CallsOf(log[srv].requested, inv)
    /\ cli_log.failed <=>
          (log[srv].model_failed /\ cli_log.invocations = log[srv].invocations)

NextLoops ==
    \/ \E p \in LoopRequests : nruns = 0 /\ run_agent(p)
    \/ stream_start(srv)
    \/ initialize_llm(srv)
    \/ invoke(srv)
    \/ append_response(srv)
    \/ execute_tool(srv)
    \/ append_tool(srv)
    \/ finish(srv)
    \/ \E line \in UserInputs :
          ServerRunEnded /\ cli_log.queries = 0 /\ cli_query(line) /\ SameModelInputs'
    \/ cli_invoke /\ SameModelInputs'
    \/ cli_execute_tool

SpecLoops == InitWith(MaxSerialToolCalls, 1) /\ [][NextLoops]_vars

\* role, tool_call_id and the ids of the tool calls of message m
Shape(m) == <<m.role, m.tool_call_id, Ids(m.tool_calls)>>

\* the shapes of the messages appended to history after the user message
AppendedShapes(history) == [i \in 1..(Len(history) - 2) |-> Shape(history[i + 2])]

ServerAppended == AppendedShapes(conversation_store[payload[srv].threadId])
CliAppended == AppendedShapes(conversation_history)

\* the CLI loop has left its while loop
CliLoopEnded == cli_log.queries = 1 /\ cli_pc = "input"

C34_WitnessFailure ==
    /\ CliLoopEnded
    /\ cli_log.failed
    /\ log[srv].model_failed
    /\ cli_log.invocations = 2
    /\ Len(CliAppended) >= 2

----------------------------------------------------------------------------
\* the answers printed for input line q
AnswersOf(q) == SelectSeq(cli_printed, LAMBDA a : a.query = q)

\* the step ends the while loop of a query without an exception
QueryProcessed ==
    /\ cli_pc \in {"invoke", "execute_tool"}
    /\ cli_pc' = "input"
    /\ ~cli_log'.failed

\* a step that ends the loop of a query without an exception prints the
\* text of the last response as the answer of that query, and no other step
\* prints an answer
OneAnswerPrinted ==
    IF QueryProcessed
    THEN cli_printed' = Append(cli_printed, [query |-> cli_log.queries,
                                             text |-> cli_response'.content])
    ELSE cli_printed' = cli_printed

\* C35: every query processed without an exception has exactly one final
\* answer printed, the text of its last response, also when the loop ends at
\* the cap of 5 on a response that still carries tool calls
C35_OneAnswerPerQuery == [][OneAnswerPrinted]_vars

\* a query has ended on a response without tool calls, after a response with
\* tool calls, and has its one answer
C35_Witness ==
    /\ cli_pc = "input"
    /\ ~cli_log.failed
    /\ cli_iteration > 0
    /\ cli_response.tool_calls = <<>>
    /\ AnswersOf(cli_log.queries) =
          <<[query |-> cli_log.queries, text |-> cli_response.content]>>

\* what the code does at the cap: the loop of the query has ended on a
\* response with text and tool calls, and no answer is printed
C35_SilentAtCap ==
    /\ cli_pc = "input"
    /\ ~cli_log.failed
    /\ cli_iteration = cli_max_iterations
    /\ cli_response.tool_calls # <<>>
    /\ cli_response.content = TextDone
    /\ AnswersOf(cli_log.queries) = <<>>

----------------------------------------------------------------------------
\* the step is a call of execute_tool that reached the handler of the tool
Called(tool_name) ==
    /\ mcp_runs' = mcp_runs + 1
    /\ mcp_call'.name = tool_name
    /\ mcp_result'.handled

\* the arguments of the call of the step
ArgProject == get(mcp_call'.parameters, "project_name", None)
ArgAutoApprove == get(mcp_call'.parameters, "auto_approve", FALSE)

ApplySaved == "terraform apply -input=false tfplan"
ApplyAuto == "terraform apply -auto-approve -input=false"

\* project p had a saved plan before the step
HadPlan(p) == "tfplan" \in files_of(workspace, p)

\* the call of the step left the workspace alone and ran no command
NoSideEffect ==
    /\ workspace' = workspace
    /\ mcp_commands' = <<>>

\* a tfplan file appears only by a terraform_plan of its project
PlanFilesFromPlan ==
    \A p \in Projects :
       ("tfplan" \in files_of(workspace', p) /\ ~HadPlan(p)) =>
          /\ Called("terraform_plan")
          /\ ArgProject = p
          /\ mcp_commands' = <<Command("terraform plan -out=tfplan -input=false", p)>>

\* a call runs an apply command only as terraform_apply of a project that
\* had a saved plan or with auto_approve true
ApplyOnlyWithPlanOrApproval ==
    (mcp_runs' = mcp_runs + 1) =>
       \A i \in 1..Len(mcp_commands') :
          mcp_commands'[i].cmd \in {ApplySaved, ApplyAuto} =>
             /\ Called("terraform_apply")
             /\ mcp_commands'[i].project = ArgProject
             /\ HadPlan(ArgProject) \/ ArgAutoApprove

\* terraform_apply of a project without a saved plan and without
\* auto_approve returns the error and does nothing; with a saved plan it
\* applies the saved plan, whatever auto_approve is
ApplyOfProject ==
    (Called("terraform_apply") /\ ArgProject \in Projects) =>
       /\ (~HadPlan(ArgProject) /\ ~ArgAutoApprove) =>
             /\ mcp_result' = Result(FALSE, NoPlanError)
             /\ NoSideEffect
       /\ HadPlan(ArgProject) =>
             /\ mcp_commands' = <<Command(ApplySaved, ArgProject)>>
             /\ workspace' = workspace

\* C36: terraform_apply runs an apply command for a project only if a saved
\* plan of a prior terraform_plan exists for it or auto_approve is true;
\* otherwise it returns success = false with "No tfplan file found. Please
\* run terraform_plan first." and has no side effect; when a saved plan
\* exists the saved plan is applied, whatever auto_approve is
C36_ApplyNeedsPlanOrApproval ==
    [][PlanFilesFromPlan /\ ApplyOnlyWithPlanOrApproval /\ ApplyOfProject]_vars

\* terraform_apply with auto_approve true has applied the saved plan of a
\* project
C36_Witness ==
    /\ mcp_call.name = "terraform_apply"
    /\ get(mcp_call.parameters, "auto_approve", FALSE)
    /\ mcp_commands = <<Command(ApplySaved, get(mcp_call.parameters, "project_name", None))>>
    /\ "tfplan" \in files_of(workspace, get(mcp_call.parameters, "project_name", None))

\* terraform_apply of an existing project without a saved plan and without
\* auto_approve has returned the error
C36_WitnessRefused ==
    /\ mcp_call.name = "terraform_apply"
    /\ mcp_call.parameters = [project_name |-> "s3_b1"]
    /\ is_dir(workspace, "s3_b1")
    /\ mcp_result = Result(FALSE, NoPlanError)
    /\ mcp_commands = <<>>

----------------------------------------------------------------------------
CreateTools ==
    {"create_ec2_instance", "create_s3_bucket", "create_vpc", "create_rds_instance",
     "create_lambda_function"}

\* a create_* handler called while IAM does not grant its action, or cannot
\* be asked, returns success = false, writes nothing and runs no command
CreateNeedsPermission ==
    \A tool_name \in CreateTools :
       (Called(tool_name) /\ mcp_env'.permission # "allowed") =>
          /\ ~mcp_result'.success
          /\ NoSideEffect

\* C37: every create_* handler (EC2, S3, VPC, RDS, Lambda) checks the
\* caller's IAM permission for its action first, and when the permission is
\* not granted or cannot be established it returns success = false without
\* writing a Terraform configuration and without running terraform init
C37_CreateChecksPermission == [][CreateNeedsPermission]_vars

\* create_s3_bucket of a named bucket, denied by IAM, has returned the
\* permission error and done nothing
C37_Witness ==
    /\ mcp_call = [name |-> "create_s3_bucket", parameters |-> [bucket_name |-> "b1"]]
    /\ mcp_env.permission = "denied"
    /\ mcp_result = Result(FALSE, "User lacks s3:CreateBucket permission")
    /\ mcp_commands = <<>>
    /\ ~is_dir(workspace, "s3_b1")

\* what the code does: create_rds_instance, denied by IAM, has written the
\* configuration and run terraform init
C37_RdsUnchecked ==
    /\ mcp_call.name = "create_rds_instance"
    /\ mcp_env.permission = "denied"
    /\ mcp_result.success
    /\ "main.tf" \in files_of(workspace, "rds_db1")
    /\ mcp_commands = <<Command("terraform init", "rds_db1")>>

\* what the code does: create_ec2_instance, with a permission check that
\* raised, has written the configuration and run terraform init
C37_FailOpen ==
    /\ mcp_call.name = "create_ec2_instance"
    /\ mcp_env.permission = "error"
    /\ mcp_result.success
    /\ "main.tf" \in files_of(workspace, "ec2_t2.micro_us-east-1")

----------------------------------------------------------------------------
\* the tools whose descriptor declares required parameters
ToolsWithRequired == {tool_name \in handlers : required(tool_name) # {}}

\* a call that omits a required parameter of its tool returns success =
\* false, creates no directory or file and runs no command
OmissionRejected ==
    \A tool_name \in ToolsWithRequired :
       (Called(tool_name) /\ ~(required(tool_name) \subseteq DOMAIN mcp_call'.parameters)) =>
          /\ ~mcp_result'.success
          /\ NoSideEffect

\* C38: for every tool whose descriptor declares required parameters, a call
\* that omits a required parameter returns success = false and has no side
\* effect: no project directory or file is created, no terraform command run
C38_RequiredParameters == [][OmissionRejected]_vars

\* terraform_apply without project_name, with auto_approve true, has
\* returned the error and done nothing
C38_Witness ==
    /\ mcp_call = [name |-> "terraform_apply", parameters |-> [auto_approve |-> TRUE]]
    /\ mcp_result = Result(FALSE, "project_name is required")
    /\ mcp_commands = <<>>

\* what the code does: create_lambda_function without function_name has
\* created the project lambda_None and run terraform init
C38_LambdaNone ==
    /\ mcp_call = [name |-> "create_lambda_function", parameters |-> <<>>]
    /\ mcp_result.success
    /\ files_of(workspace, "lambda_None") = {"main.tf", "lambda_function_payload.zip"}
    /\ mcp_commands = <<Command("terraform init", "lambda_None")>>

====
